---- MODULE Spec2Model ----
(***************************************************************************)
(* A model of the wondercard memory card protocol engine                   *)
(* (wondercard/src/MemoryCard.cpp): the card's power lifecycle, the        *)
(* byte-level send() state machine with its read, write and identify       *)
(* sub-machines, and the 128 KiB backing store.  A host drives one card    *)
(* through power_on, power_off and send, one call per step.                *)
(***************************************************************************)
EXTENDS Integers, Sequences, FiniteSets, TLC

(***************************************************************************)
(* common.hpp: Byte is std::uint8_t, TriState is std::optional<Byte>.      *)
(* std::nullopt (the high-impedance value) is written as -1, so that a     *)
(* TriState is an integer in -1..255 and compares with a byte as           *)
(* std::optional does: nullopt equals no byte.                             *)
(***************************************************************************)
nullopt == -1

Byte == 0..255

TriState == Byte \cup {nullopt}

\* std::optional<Byte>::value_or(d), the result converted to Byte
value_or(t, d) == IF t = nullopt THEN d % 256 ELSE t

\* a ^ b on unsigned values
RECURSIVE Xor(_, _)
Xor(a, b) ==
    IF a = 0 THEN b
    ELSE IF b = 0 THEN a
    ELSE ((a + b) % 2) + 2 * Xor(a \div 2, b \div 2)

\* a | b on unsigned values
RECURSIVE BitOr(_, _)
BitOr(a, b) ==
    IF a = 0 THEN b
    ELSE IF b = 0 THEN a
    ELSE (IF a % 2 = 1 \/ b % 2 = 1 THEN 1 ELSE 0) + 2 * BitOr(a \div 2, b \div 2)

\* ~b of a Byte, promoted to int: the value a conversion back to Byte maps
\* to 255 - b
BitNot(b) == -1 - b

(***************************************************************************)
(* MemoryCard.hpp: geometry of the card.                                   *)
(***************************************************************************)
CARD_BLOCK_COUNT == 16

BLOCK_SECTOR_COUNT == 64

SECTOR_SIZE == 128

BLOCK_SIZE == BLOCK_SECTOR_COUNT * SECTOR_SIZE

CARD_SIZE == CARD_BLOCK_COUNT * BLOCK_SIZE

(***************************************************************************)
(* MemoryCard.cpp: the private constants.                                  *)
(***************************************************************************)
_FLAG_INIT_VALUE == \h08

_STARTING_STATE == "IDLE"

_LAST_SECTOR == \h03FF

(***************************************************************************)
(* The backing store, std::array<Byte, CARD_SIZE> _bytes.  The array is    *)
(* held as the content it was constructed with (seed names one of the      *)
(* contents InitByte enumerates) and the finite map w of the offsets whose *)
(* byte differs from that content; ByteAt is the array's operator[].       *)
(* SetByte keeps the map minimal, so two stores are equal as records       *)
(* exactly when they are equal byte for byte.                              *)
(***************************************************************************)
InitByte(seed, o) ==
    IF seed = 0 THEN 0 ELSE (3 * o + (o \div 7) + (o \div SECTOR_SIZE) + seed) % 256

NewStore(seed) == [seed |-> seed, w |-> [o \in {} |-> 0]]

ByteAt(b, o) == IF o \in DOMAIN b.w THEN b.w[o] ELSE InitByte(b.seed, o)

SetByte(b, o, v) ==
    IF v = InitByte(b.seed, o)
    THEN [b EXCEPT !.w = [x \in (DOMAIN b.w) \ {o} |-> b.w[x]]]
    ELSE [b EXCEPT !.w = (o :> v) @@ b.w]

\* MemoryCard::get_sector: a span over the store, held as its first offset
\* (the index is not validated)
get_sector(i) == i * SECTOR_SIZE

\* MemoryCard::get_block
get_block(i) == i * BLOCK_SIZE

(***************************************************************************)
(* The card object.  The constructors set _powered_on, _flag and _state;   *)
(* _sub_state, _address, _byte_counter and _checksum are left              *)
(* uninitialised (scratch is the indeterminate content), and the store is  *)
(* the supplied data or, for the default constructor, whatever the         *)
(* storage held.                                                           *)
(***************************************************************************)
MemoryCard(seed, scratch) ==
    [ powered_on   |-> FALSE,
      flag         |-> _FLAG_INIT_VALUE,
      state        |-> _STARTING_STATE,
      sub_state    |-> scratch.sub_state,
      address      |-> scratch.address,
      byte_counter |-> scratch.byte_counter,
      checksum     |-> scratch.checksum,
      bytes        |-> NewStore(seed) ]

\* the result of a call: the object after it, the value returned, and (for
\* send) the content of the caller's data variable after the call
Result(c, r, d) == [card |-> c, ret |-> r, data |-> d]

\* a variant of power_on that reports success on a card that is already
\* powered
power_on_AlwaysTrue(c) ==
    Result([c EXCEPT !.powered_on = TRUE,
                     !.flag = IF c.powered_on THEN c.flag ELSE _FLAG_INIT_VALUE,
                     !.state = IF c.powered_on THEN c.state ELSE _STARTING_STATE],
           TRUE, nullopt)

\* a variant of power_on that resumes the protocol state the card had when
\* it lost power
power_on_KeepsState(c) ==
    IF ~c.powered_on
    THEN Result([c EXCEPT !.powered_on = TRUE, !.flag = _FLAG_INIT_VALUE], TRUE, nullopt)
    ELSE Result(c, FALSE, nullopt)

power_on(c) ==
    IF ~c.powered_on
    THEN Result([c EXCEPT !.powered_on = TRUE,
                          !.flag = _FLAG_INIT_VALUE,
                          !.state = _STARTING_STATE], TRUE, nullopt)
    ELSE Result(c, FALSE, nullopt)

power_off(c) == Result([c EXCEPT !.powered_on = FALSE], c.powered_on, nullopt)

(***************************************************************************)
(* MemoryCard::read_data_command, one operator per case of its switch.     *)
(***************************************************************************)
ReadState_RECV_MEMCARD_ID_1(c, command, data) ==
    Result([c EXCEPT !.sub_state = "RECV_MEMCARD_ID_2"], TRUE, \h5A)

ReadState_RECV_MEMCARD_ID_2(c, command, data) ==
    Result([c EXCEPT !.sub_state = "SEND_ADDRESS_MSB"], TRUE, \h5D)

ReadState_SEND_ADDRESS_MSB(c, command, data) ==
    LET ck == value_or(command, \hFF) IN
    Result([c EXCEPT !.checksum = ck,
                     !.address = (ck * 256) % 65536,
                     !.sub_state = "SEND_ADDRESS_LSB"], TRUE, \h00)

ReadState_SEND_ADDRESS_LSB(c, command, data) ==
    LET addr == BitOr(c.address, value_or(command, \hFF))
        ck   == Xor(c.checksum, addr % 256)
    IN  Result([c EXCEPT !.address = IF addr > _LAST_SECTOR THEN \hFFFF ELSE addr,
                         !.checksum = ck,
                         !.sub_state = "RECV_COMMAND_ACK_1"], TRUE, \h00)

ReadState_RECV_COMMAND_ACK_1(c, command, data) ==
    Result([c EXCEPT !.sub_state = "RECV_COMMAND_ACK_2"], TRUE, \h5C)

ReadState_RECV_COMMAND_ACK_2(c, command, data) ==
    Result([c EXCEPT !.sub_state = "RECV_CONFIRM_ADDRESS_MSB"], TRUE, \h5D)

ReadState_RECV_CONFIRM_ADDRESS_MSB(c, command, data) ==
    Result([c EXCEPT !.sub_state = "RECV_CONFIRM_ADDRESS_LSB"], TRUE,
           c.address \div 256)

\* a variant of the RECV_CONFIRM_ADDRESS_LSB case that refuses a poisoned
\* address without leaving the read
ReadState_RECV_CONFIRM_ADDRESS_LSB_Stays(c, command, data) ==
    IF c.address = \hFFFF
    THEN Result(c, FALSE, c.address % 256)
    ELSE Result([c EXCEPT !.sub_state = "RECV_DATA_SECTOR",
                          !.byte_counter = \h00], TRUE, c.address % 256)

\* a variant of the RECV_CONFIRM_ADDRESS_LSB case that goes on to the data
\* of a poisoned address
ReadState_RECV_CONFIRM_ADDRESS_LSB_GoesOn(c, command, data) ==
    Result([c EXCEPT !.sub_state = "RECV_DATA_SECTOR",
                     !.byte_counter = \h00], TRUE, c.address % 256)

ReadState_RECV_CONFIRM_ADDRESS_LSB(c, command, data) ==
    IF c.address = \hFFFF
    THEN Result([c EXCEPT !.state = "IDLE"], FALSE, c.address % 256)
    ELSE Result([c EXCEPT !.sub_state = "RECV_DATA_SECTOR",
                          !.byte_counter = \h00], TRUE, c.address % 256)

\* a variant of the RECV_DATA_SECTOR case that sends one byte more
ReadState_RECV_DATA_SECTOR_OneMore(c, command, data) ==
    LET d   == ByteAt(c.bytes, get_sector(c.address) + c.byte_counter)
        cnt == (c.byte_counter + 1) % 256
    IN  Result([c EXCEPT !.checksum = Xor(c.checksum, d),
                         !.byte_counter = cnt,
                         !.sub_state = IF cnt = 129 THEN "RECV_CHECKSUM"
                                       ELSE c.sub_state], TRUE, d)

\* a variant of the RECV_DATA_SECTOR case that clears each byte it has sent
ReadState_RECV_DATA_SECTOR_Clears(c, command, data) ==
    LET d   == ByteAt(c.bytes, get_sector(c.address) + c.byte_counter)
        cnt == (c.byte_counter + 1) % 256
    IN  Result([c EXCEPT !.bytes = SetByte(c.bytes, get_sector(c.address) + c.byte_counter,
                                           \h00),
                         !.checksum = Xor(c.checksum, d),
                         !.byte_counter = cnt,
                         !.sub_state = IF cnt = 128 THEN "RECV_CHECKSUM"
                                       ELSE c.sub_state], TRUE, d)

\* a variant of the RECV_DATA_SECTOR case that leaves the data out of the
\* checksum
ReadState_RECV_DATA_SECTOR_NoChecksum(c, command, data) ==
    LET d   == ByteAt(c.bytes, get_sector(c.address) + c.byte_counter)
        cnt == (c.byte_counter + 1) % 256
    IN  Result([c EXCEPT !.byte_counter = cnt,
                         !.sub_state = IF cnt = 128 THEN "RECV_CHECKSUM"
                                       ELSE c.sub_state], TRUE, d)

ReadState_RECV_DATA_SECTOR(c, command, data) ==
    LET d   == ByteAt(c.bytes, get_sector(c.address) + c.byte_counter)
        cnt == (c.byte_counter + 1) % 256
    IN  Result([c EXCEPT !.checksum = Xor(c.checksum, d),
                         !.byte_counter = cnt,
                         !.sub_state = IF cnt = 128 THEN "RECV_CHECKSUM"
                                       ELSE c.sub_state], TRUE, d)

ReadState_RECV_CHECKSUM(c, command, data) ==
    Result([c EXCEPT !.sub_state = "RECV_END_BYTE"], TRUE, c.checksum)

ReadState_RECV_END_BYTE(c, command, data) ==
    Result([c EXCEPT !.state = "IDLE"], FALSE, \h47)

read_data_command(c, command, data) ==
    CASE c.sub_state = "RECV_MEMCARD_ID_1" -> ReadState_RECV_MEMCARD_ID_1(c, command, data)
      [] c.sub_state = "RECV_MEMCARD_ID_2" -> ReadState_RECV_MEMCARD_ID_2(c, command, data)
      [] c.sub_state = "SEND_ADDRESS_MSB" -> ReadState_SEND_ADDRESS_MSB(c, command, data)
      [] c.sub_state = "SEND_ADDRESS_LSB" -> ReadState_SEND_ADDRESS_LSB(c, command, data)
      [] c.sub_state = "RECV_COMMAND_ACK_1" -> ReadState_RECV_COMMAND_ACK_1(c, command, data)
      [] c.sub_state = "RECV_COMMAND_ACK_2" -> ReadState_RECV_COMMAND_ACK_2(c, command, data)
      [] c.sub_state = "RECV_CONFIRM_ADDRESS_MSB" ->
             ReadState_RECV_CONFIRM_ADDRESS_MSB(c, command, data)
      [] c.sub_state = "RECV_CONFIRM_ADDRESS_LSB" ->
             ReadState_RECV_CONFIRM_ADDRESS_LSB(c, command, data)
      [] c.sub_state = "RECV_DATA_SECTOR" -> ReadState_RECV_DATA_SECTOR(c, command, data)
      [] c.sub_state = "RECV_CHECKSUM" -> ReadState_RECV_CHECKSUM(c, command, data)
      [] c.sub_state = "RECV_END_BYTE" -> ReadState_RECV_END_BYTE(c, command, data)
      [] OTHER -> Result(c, TRUE, data)

(***************************************************************************)
(* MemoryCard::write_data_command, one operator per case of its switch.    *)
(***************************************************************************)
WriteState_RECV_MEMCARD_ID_1(c, command, data) ==
    Result([c EXCEPT !.sub_state = "RECV_MEMCARD_ID_2"], TRUE, \h5A)

WriteState_RECV_MEMCARD_ID_2(c, command, data) ==
    Result([c EXCEPT !.sub_state = "SEND_ADDRESS_MSB"], TRUE, \h5D)

\* a variant of the SEND_ADDRESS_MSB case of write that folds the MSB into
\* the checksum it finds
WriteState_SEND_ADDRESS_MSB_KeepsChecksum(c, command, data) ==
    LET msb == value_or(command, \hFF) IN
    Result([c EXCEPT !.checksum = Xor(c.checksum, msb),
                     !.address = (msb * 256) % 65536,
                     !.sub_state = "SEND_ADDRESS_LSB"], TRUE, \h00)

WriteState_SEND_ADDRESS_MSB(c, command, data) ==
    LET ck == value_or(command, \hFF) IN
    Result([c EXCEPT !.checksum = ck,
                     !.address = (ck * 256) % 65536,
                     !.sub_state = "SEND_ADDRESS_LSB"], TRUE, \h00)

\* a variant of the SEND_ADDRESS_LSB case of write that takes an absent
\* input for the byte 0x00
WriteState_SEND_ADDRESS_LSB_AbsentIsZero(c, command, data) ==
    LET addr == BitOr(c.address, value_or(command, \h00))
        ck   == Xor(c.checksum, addr % 256)
    IN  Result([c EXCEPT !.address = IF addr > _LAST_SECTOR THEN \hFFFF ELSE addr,
                         !.checksum = ck,
                         !.byte_counter = \h00,
                         !.sub_state = "SEND_DATA_SECTOR"], TRUE, \h00)

WriteState_SEND_ADDRESS_LSB(c, command, data) ==
    LET addr == BitOr(c.address, value_or(command, \hFF))
        ck   == Xor(c.checksum, addr % 256)
    IN  Result([c EXCEPT !.address = IF addr > _LAST_SECTOR THEN \hFFFF ELSE addr,
                         !.checksum = ck,
                         !.byte_counter = \h00,
                         !.sub_state = "SEND_DATA_SECTOR"], TRUE, \h00)

\* a variant of the SEND_DATA_SECTOR case that also erases the byte after the
\* one it stores
WriteState_SEND_DATA_SECTOR_ErasesAhead(c, command, data) ==
    LET write_byte == value_or(command, \hFF)
        cnt        == (c.byte_counter + 1) % 256
        o          == get_sector(c.address) + c.byte_counter
        stored     == IF c.address # \hFFFF
                      THEN IF cnt < 128
                           THEN SetByte(SetByte(c.bytes, o, write_byte), o + 1, \h00)
                           ELSE SetByte(c.bytes, o, write_byte)
                      ELSE c.bytes
    IN  Result([c EXCEPT !.bytes = stored,
                         !.checksum = Xor(c.checksum, write_byte),
                         !.byte_counter = cnt,
                         !.sub_state = IF cnt = 128 THEN "SEND_CHECKSUM"
                                       ELSE c.sub_state], TRUE, \h00)

\* a variant of the SEND_DATA_SECTOR case that stores the byte whatever the
\* address
WriteState_SEND_DATA_SECTOR_StoresPoisoned(c, command, data) ==
    LET write_byte == value_or(command, \hFF)
        cnt        == (c.byte_counter + 1) % 256
    IN  Result([c EXCEPT !.bytes = SetByte(c.bytes, get_sector(c.address) + c.byte_counter,
                                           write_byte),
                         !.checksum = Xor(c.checksum, write_byte),
                         !.byte_counter = cnt,
                         !.sub_state = IF cnt = 128 THEN "SEND_CHECKSUM"
                                       ELSE c.sub_state], TRUE, \h00)

\* a variant of the SEND_DATA_SECTOR case that stores each byte one place
\* too far
WriteState_SEND_DATA_SECTOR_OffByOne(c, command, data) ==
    LET write_byte == value_or(command, \hFF)
        cnt        == (c.byte_counter + 1) % 256
        stored     == IF c.address # \hFFFF
                      THEN SetByte(c.bytes, get_sector(c.address) + cnt, write_byte)
                      ELSE c.bytes
    IN  Result([c EXCEPT !.bytes = stored,
                         !.checksum = Xor(c.checksum, write_byte),
                         !.byte_counter = cnt,
                         !.sub_state = IF cnt = 128 THEN "SEND_CHECKSUM"
                                       ELSE c.sub_state], TRUE, \h00)

WriteState_SEND_DATA_SECTOR(c, command, data) ==
    LET write_byte == value_or(command, \hFF)
        cnt        == (c.byte_counter + 1) % 256
        stored     == IF c.address # \hFFFF
                      THEN SetByte(c.bytes, get_sector(c.address) + c.byte_counter,
                                   write_byte)
                      ELSE c.bytes
    IN  Result([c EXCEPT !.bytes = stored,
                         !.checksum = Xor(c.checksum, write_byte),
                         !.byte_counter = cnt,
                         !.sub_state = IF cnt = 128 THEN "SEND_CHECKSUM"
                                       ELSE c.sub_state], TRUE, \h00)

\* a variant of the SEND_CHECKSUM case that takes an absent input for the
\* byte 0xFF
WriteState_SEND_CHECKSUM_AbsentIsFF(c, command, data) ==
    LET sent_checksum == value_or(command, \hFF) IN
    Result([c EXCEPT !.checksum = IF sent_checksum = c.checksum THEN \h00 ELSE \hFF,
                     !.sub_state = "RECV_COMMAND_ACK_1"], TRUE, \h00)

\* a variant of the SEND_CHECKSUM case that accepts every checksum
WriteState_SEND_CHECKSUM_Accepts(c, command, data) ==
    Result([c EXCEPT !.checksum = \h00,
                     !.sub_state = "RECV_COMMAND_ACK_1"], TRUE, \h00)

WriteState_SEND_CHECKSUM(c, command, data) ==
    LET sent_checksum == value_or(command, BitNot(c.checksum)) IN
    Result([c EXCEPT !.checksum = IF sent_checksum = c.checksum THEN \h00 ELSE \hFF,
                     !.sub_state = "RECV_COMMAND_ACK_1"], TRUE, \h00)

WriteState_RECV_COMMAND_ACK_1(c, command, data) ==
    Result([c EXCEPT !.sub_state = "RECV_COMMAND_ACK_2"], TRUE, \h5C)

WriteState_RECV_COMMAND_ACK_2(c, command, data) ==
    Result([c EXCEPT !.sub_state = "RECV_END_BYTE"], TRUE, \h5D)

\* a variant of the RECV_END_BYTE case that clears the flag at the end of a
\* write
WriteState_RECV_END_BYTE_ClearsFlag(c, command, data) ==
    Result([c EXCEPT !.state = "IDLE", !.flag = \h00], FALSE,
           IF c.address = \hFFFF THEN \hFF
           ELSE IF c.checksum = \hFF THEN \h4E
           ELSE \h47)

\* a variant of the RECV_END_BYTE case that tests the checksum before the
\* address
WriteState_RECV_END_BYTE_ChecksumFirst(c, command, data) ==
    Result([c EXCEPT !.state = "IDLE"], FALSE,
           IF c.checksum = \hFF THEN \h4E
           ELSE IF c.address = \hFFFF THEN \hFF
           ELSE \h47)

WriteState_RECV_END_BYTE(c, command, data) ==
    Result([c EXCEPT !.state = "IDLE"], FALSE,
           IF c.address = \hFFFF THEN \hFF
           ELSE IF c.checksum = \hFF THEN \h4E
           ELSE \h47)

write_data_command(c, command, data) ==
    CASE c.sub_state = "RECV_MEMCARD_ID_1" -> WriteState_RECV_MEMCARD_ID_1(c, command, data)
      [] c.sub_state = "RECV_MEMCARD_ID_2" -> WriteState_RECV_MEMCARD_ID_2(c, command, data)
      [] c.sub_state = "SEND_ADDRESS_MSB" -> WriteState_SEND_ADDRESS_MSB(c, command, data)
      [] c.sub_state = "SEND_ADDRESS_LSB" -> WriteState_SEND_ADDRESS_LSB(c, command, data)
      [] c.sub_state = "SEND_DATA_SECTOR" -> WriteState_SEND_DATA_SECTOR(c, command, data)
      [] c.sub_state = "SEND_CHECKSUM" -> WriteState_SEND_CHECKSUM(c, command, data)
      [] c.sub_state = "RECV_COMMAND_ACK_1" -> WriteState_RECV_COMMAND_ACK_1(c, command, data)
      [] c.sub_state = "RECV_COMMAND_ACK_2" -> WriteState_RECV_COMMAND_ACK_2(c, command, data)
      [] c.sub_state = "RECV_END_BYTE" -> WriteState_RECV_END_BYTE(c, command, data)
      [] OTHER -> Result(c, TRUE, data)

(***************************************************************************)
(* MemoryCard::get_memcard_id_command, one operator per case.              *)
(***************************************************************************)
GetIdState_RECV_MEMCARD_ID_1(c, command, data) ==
    Result([c EXCEPT !.sub_state = "RECV_MEMCARD_ID_2"], TRUE, \h5A)

GetIdState_RECV_MEMCARD_ID_2(c, command, data) ==
    Result([c EXCEPT !.sub_state = "RECV_COMMAND_ACK_1"], TRUE, \h5D)

GetIdState_RECV_COMMAND_ACK_1(c, command, data) ==
    Result([c EXCEPT !.sub_state = "RECV_COMMAND_ACK_2"], TRUE, \h5C)

GetIdState_RECV_COMMAND_ACK_2(c, command, data) ==
    Result([c EXCEPT !.sub_state = "RECV_INFO_1"], TRUE, \h5D)

GetIdState_RECV_INFO_1(c, command, data) ==
    Result([c EXCEPT !.sub_state = "RECV_INFO_2"], TRUE, \h04)

GetIdState_RECV_INFO_2(c, command, data) ==
    Result([c EXCEPT !.sub_state = "RECV_INFO_3"], TRUE, \h00)

\* a variant of the RECV_INFO_3 case that ends the frame one transfer early
GetIdState_RECV_INFO_3_Ends(c, command, data) ==
    Result([c EXCEPT !.state = "IDLE"], FALSE, \h00)

GetIdState_RECV_INFO_3(c, command, data) ==
    Result([c EXCEPT !.sub_state = "RECV_INFO_4"], TRUE, \h00)

\* a variant of the RECV_INFO_4 case that does not end the frame
GetIdState_RECV_INFO_4_Stays(c, command, data) ==
    Result(c, FALSE, \h80)

GetIdState_RECV_INFO_4(c, command, data) ==
    Result([c EXCEPT !.state = "IDLE"], FALSE, \h80)

get_memcard_id_command(c, command, data) ==
    CASE c.sub_state = "RECV_MEMCARD_ID_1" -> GetIdState_RECV_MEMCARD_ID_1(c, command, data)
      [] c.sub_state = "RECV_MEMCARD_ID_2" -> GetIdState_RECV_MEMCARD_ID_2(c, command, data)
      [] c.sub_state = "RECV_COMMAND_ACK_1" -> GetIdState_RECV_COMMAND_ACK_1(c, command, data)
      [] c.sub_state = "RECV_COMMAND_ACK_2" -> GetIdState_RECV_COMMAND_ACK_2(c, command, data)
      [] c.sub_state = "RECV_INFO_1" -> GetIdState_RECV_INFO_1(c, command, data)
      [] c.sub_state = "RECV_INFO_2" -> GetIdState_RECV_INFO_2(c, command, data)
      [] c.sub_state = "RECV_INFO_3" -> GetIdState_RECV_INFO_3(c, command, data)
      [] c.sub_state = "RECV_INFO_4" -> GetIdState_RECV_INFO_4(c, command, data)
      [] OTHER -> Result(c, TRUE, data)

(***************************************************************************)
(* MemoryCard::send.  data is the caller's variable: a path of the code    *)
(* that does not assign it leaves the caller's content in place.           *)
(***************************************************************************)
\* a variant of the IDLE case that takes any byte for the start of a frame
State_IDLE_AnyByte(c, command, data) ==
    IF command # nullopt
    THEN Result([c EXCEPT !.state = "AWAITING_COMMAND"], TRUE, data)
    ELSE Result(c, FALSE, data)

State_IDLE(c, command, data) ==
    IF command = \h81
    THEN Result([c EXCEPT !.state = "AWAITING_COMMAND"], TRUE, data)
    ELSE Result(c, FALSE, data)

\* a variant of the AWAITING_COMMAND case that takes 0x81 for the start of a
\* frame
State_AWAITING_COMMAND_Restarts(c, command, data) ==
    LET code == value_or(command, \h00) IN
    CASE code = \h52 ->
             Result([c EXCEPT !.state = "READ_DATA_COMMAND",
                              !.sub_state = "RECV_MEMCARD_ID_1"], TRUE, c.flag)
      [] code = \h57 ->
             Result([c EXCEPT !.state = "WRITE_DATA_COMMAND",
                              !.sub_state = "RECV_MEMCARD_ID_1"], TRUE, c.flag)
      [] code = \h53 ->
             Result([c EXCEPT !.state = "GET_MEMCARD_ID_COMMAND",
                              !.sub_state = "RECV_MEMCARD_ID_1"], TRUE, c.flag)
      [] code = \h81 ->
             Result(c, TRUE, c.flag)
      [] OTHER ->
             Result([c EXCEPT !.state = "IDLE"], FALSE, c.flag)

\* a variant of the AWAITING_COMMAND case that keeps waiting for a command
\* after an unknown one
State_AWAITING_COMMAND_Waits(c, command, data) ==
    LET code == value_or(command, \h00) IN
    CASE code = \h52 ->
             Result([c EXCEPT !.state = "READ_DATA_COMMAND",
                              !.sub_state = "RECV_MEMCARD_ID_1"], TRUE, c.flag)
      [] code = \h57 ->
             Result([c EXCEPT !.state = "WRITE_DATA_COMMAND",
                              !.sub_state = "RECV_MEMCARD_ID_1"], TRUE, c.flag)
      [] code = \h53 ->
             Result([c EXCEPT !.state = "GET_MEMCARD_ID_COMMAND",
                              !.sub_state = "RECV_MEMCARD_ID_1"], TRUE, c.flag)
      [] OTHER ->
             Result(c, FALSE, c.flag)

State_AWAITING_COMMAND(c, command, data) ==
    LET code == value_or(command, \h00) IN
    CASE code = \h52 ->
             Result([c EXCEPT !.state = "READ_DATA_COMMAND",
                              !.sub_state = "RECV_MEMCARD_ID_1"], TRUE, c.flag)
      [] code = \h57 ->
             Result([c EXCEPT !.state = "WRITE_DATA_COMMAND",
                              !.sub_state = "RECV_MEMCARD_ID_1"], TRUE, c.flag)
      [] code = \h53 ->
             Result([c EXCEPT !.state = "GET_MEMCARD_ID_COMMAND",
                              !.sub_state = "RECV_MEMCARD_ID_1"], TRUE, c.flag)
      [] OTHER ->
             Result([c EXCEPT !.state = "IDLE"], FALSE, c.flag)

\* a variant of send that takes 0x81 for the start of a frame in every state
send_RestartsOn81(c, command, data) ==
    IF ~c.powered_on
    THEN Result(c, FALSE, data)
    ELSE IF command = \h81
    THEN Result([c EXCEPT !.state = "AWAITING_COMMAND"], TRUE, data)
    ELSE CASE c.state = "IDLE" -> State_IDLE(c, command, data)
           [] c.state = "AWAITING_COMMAND" -> State_AWAITING_COMMAND(c, command, data)
           [] c.state = "READ_DATA_COMMAND" -> read_data_command(c, command, data)
           [] c.state = "WRITE_DATA_COMMAND" -> write_data_command(c, command, data)
           [] c.state = "GET_MEMCARD_ID_COMMAND" -> get_memcard_id_command(c, command, data)
           [] OTHER -> Result(c, FALSE, data)

\* a variant of send that does not look at the power
send_Unpowered(c, command, data) ==
    CASE c.state = "IDLE" -> State_IDLE(c, command, data)
      [] c.state = "AWAITING_COMMAND" -> State_AWAITING_COMMAND(c, command, data)
      [] c.state = "READ_DATA_COMMAND" -> read_data_command(c, command, data)
      [] c.state = "WRITE_DATA_COMMAND" -> write_data_command(c, command, data)
      [] c.state = "GET_MEMCARD_ID_COMMAND" -> get_memcard_id_command(c, command, data)
      [] OTHER -> Result(c, FALSE, data)

send(c, command, data) ==
    IF ~c.powered_on
    THEN Result(c, FALSE, data)
    ELSE CASE c.state = "IDLE" -> State_IDLE(c, command, data)
           [] c.state = "AWAITING_COMMAND" -> State_AWAITING_COMMAND(c, command, data)
           [] c.state = "READ_DATA_COMMAND" -> read_data_command(c, command, data)
           [] c.state = "WRITE_DATA_COMMAND" -> write_data_command(c, command, data)
           [] c.state = "GET_MEMCARD_ID_COMMAND" -> get_memcard_id_command(c, command, data)
           [] OTHER -> Result(c, FALSE, data)

(***************************************************************************)
(* MemoryCardSlot.  A world w holds the cards (w.cards[k] is the MemoryCard *)
(* object k) and, for every slot s, the pointer w.slots[s] =                *)
(* _inserted_card: a card's name or nullptr.  A call returns the world      *)
(* after it, its return value, and the content of the caller's buffer       *)
(* (data) after it.  A Sector buffer is a sequence of SECTOR_SIZE bytes, a  *)
(* Block buffer a sequence of BLOCK_SECTOR_COUNT Sector buffers (its        *)
(* subspans), a card buffer a sequence of CARD_BLOCK_COUNT Block buffers.   *)
(***************************************************************************)
nullptr == "nullptr"

SlotResult(w, r, d) == [w |-> w, ret |-> r, data |-> d]

\* a variant of send on a slot that transfers every byte to the card twice
slot_send_Repeats(w, s, command, data) ==
    IF w.slots[s] = nullptr
    THEN SlotResult(w, FALSE, data)
    ELSE LET r == send(send(w.cards[w.slots[s]], command, data).card, command, data) IN
         SlotResult([w EXCEPT !.cards[w.slots[s]] = r.card], r.ret, r.data)

\* a variant of send that hands the card a variable of its own and leaves
\* the caller's data as it was
slot_send_KeepsData(w, s, command, data) ==
    IF w.slots[s] = nullptr
    THEN SlotResult(w, FALSE, data)
    ELSE LET r == send(w.cards[w.slots[s]], command, nullopt) IN
         SlotResult([w EXCEPT !.cards[w.slots[s]] = r.card], r.ret, data)

\* MemoryCardSlot::send
slot_send(w, s, command, data) ==
    IF w.slots[s] = nullptr
    THEN SlotResult(w, FALSE, data)
    ELSE LET r == send(w.cards[w.slots[s]], command, data) IN
         SlotResult([w EXCEPT !.cards[w.slots[s]] = r.card], r.ret, r.data)

\* a variant of insert_card that powers the card on before it looks at the
\* slot
insert_card_PowersFirst(w, s, k) ==
    LET r == power_on(w.cards[k]) IN
    IF w.slots[s] # nullptr
    THEN SlotResult([w EXCEPT !.cards[k] = r.card], FALSE, nullopt)
    ELSE IF ~r.ret
         THEN SlotResult(w, FALSE, nullopt)
         ELSE SlotResult([w EXCEPT !.cards[k] = r.card, !.slots[s] = k], TRUE, nullopt)

\* a variant of insert_card that stores the card whatever power_on returned
insert_card_IgnoresPowerOn(w, s, k) ==
    IF w.slots[s] # nullptr
    THEN SlotResult(w, FALSE, nullopt)
    ELSE SlotResult([w EXCEPT !.cards[k] = power_on(w.cards[k]).card, !.slots[s] = k],
                    TRUE, nullopt)

insert_card(w, s, k) ==
    IF w.slots[s] # nullptr
    THEN SlotResult(w, FALSE, nullopt)
    ELSE LET r == power_on(w.cards[k]) IN
         IF ~r.ret
         THEN SlotResult(w, FALSE, nullopt)
         ELSE SlotResult([w EXCEPT !.cards[k] = r.card, !.slots[s] = k], TRUE, nullopt)

\* a variant of remove_card that forgets the card without powering it off
remove_card_LeavesPower(w, s) ==
    IF w.slots[s] = nullptr
    THEN SlotResult(w, FALSE, nullopt)
    ELSE SlotResult([w EXCEPT !.slots[s] = nullptr], TRUE, nullopt)

remove_card(w, s) ==
    IF w.slots[s] = nullptr
    THEN SlotResult(w, FALSE, nullopt)
    ELSE SlotResult([w EXCEPT !.cards[w.slots[s]] = power_off(w.cards[w.slots[s]]).card,
                              !.slots[s] = nullptr], TRUE, nullopt)

(***************************************************************************)
(* The loops of read_sector and write_sector.  A run is the state of one   *)
(* call: the card, the scratchpad variable output, whether the call has    *)
(* returned false (failed), the local checksum and the caller's buffer.    *)
(* A loop over lo..hi-1 is unrolled by halves; a failed run does nothing   *)
(* more.                                                                   *)
(***************************************************************************)
Run(c, data) ==
    [card |-> c, output |-> nullopt, failed |-> FALSE, checksum |-> 0, data |-> data]

\* one turn of the loop that sends commands[i] and validates the response
SendCommand(run, command, valid) ==
    LET r == send(run.card, command, run.output) IN
    [run EXCEPT !.card = r.card,
                !.output = r.data,
                !.failed = ~r.ret \/ (valid # nullopt /\ r.data # valid)]

RECURSIVE SendCommands(_, _, _, _, _)
SendCommands(run, commands, valid, lo, hi) ==
    IF run.failed \/ hi <= lo THEN run
    ELSE IF hi = lo + 1 THEN SendCommand(run, commands[lo + 1], valid[lo + 1])
    ELSE SendCommands(SendCommands(run, commands, valid, lo, (lo + hi) \div 2),
                      commands, valid, (lo + hi) \div 2, hi)

\* a variant of the data loop of read_sector that stores the byte and leaves
\* the local checksum as it was
ReceiveByte_NoChecksum(run, i) ==
    LET r == send(run.card, \h00, run.output) IN
    IF ~r.ret \/ r.data = nullopt
    THEN [run EXCEPT !.card = r.card, !.output = r.data, !.failed = TRUE]
    ELSE [run EXCEPT !.card = r.card,
                     !.output = r.data,
                     !.data = [run.data EXCEPT ![i + 1] = r.data]]

\* one turn of the loop of read_sector that receives data[i]
ReceiveByte(run, i) ==
    LET r == send(run.card, \h00, run.output) IN
    IF ~r.ret \/ r.data = nullopt
    THEN [run EXCEPT !.card = r.card, !.output = r.data, !.failed = TRUE]
    ELSE [run EXCEPT !.card = r.card,
                     !.output = r.data,
                     !.data = [run.data EXCEPT ![i + 1] = r.data],
                     !.checksum = Xor(run.checksum, r.data)]

RECURSIVE ReceiveBytes(_, _, _)
ReceiveBytes(run, lo, hi) ==
    IF run.failed \/ hi <= lo THEN run
    ELSE IF hi = lo + 1 THEN ReceiveByte(run, lo)
    ELSE ReceiveBytes(ReceiveBytes(run, lo, (lo + hi) \div 2), (lo + hi) \div 2, hi)

\* a variant of the data loop of write_sector that sends the byte and leaves
\* the local checksum as it was
SendByte_NoChecksum(run, i) ==
    LET r == send(run.card, run.data[i + 1], run.output) IN
    [run EXCEPT !.card = r.card,
                !.output = r.data,
                !.failed = ~r.ret]

\* one turn of the loop of write_sector that sends data[i]
SendByte(run, i) ==
    LET r == send(run.card, run.data[i + 1], run.output) IN
    [run EXCEPT !.card = r.card,
                !.output = r.data,
                !.failed = ~r.ret,
                !.checksum = IF r.ret THEN Xor(run.checksum, run.data[i + 1]) ELSE @]

RECURSIVE SendBytes(_, _, _)
SendBytes(run, lo, hi) ==
    IF run.failed \/ hi <= lo THEN run
    ELSE IF hi = lo + 1 THEN SendByte(run, lo)
    ELSE SendBytes(SendBytes(run, lo, (lo + hi) \div 2), (lo + hi) \div 2, hi)

\* the card that slot s of world w holds, after a call on it left it as c
WithCard(w, s, c) == [w EXCEPT !.cards[w.slots[s]] = c]

\* (index & 0x300u) >> 8
SectorMSB(index) == (index \div 256) % 4

\* index & 0x0FFu
SectorLSB(index) == index % 256

read_sector(w, s, index, data) ==
    IF w.slots[s] = nullptr THEN SlotResult(w, FALSE, data)
    ELSE
    LET msb == SectorMSB(index)
        lsb == SectorLSB(index)
        commands == <<\h81, \h52, \h00, \h00, msb, lsb, \h00, \h00, \h00, \h00>>
        valid_responses == <<nullopt, nullopt, \h5A, \h5D, nullopt, nullopt,
                             \h5C, \h5D, msb, lsb>>
        h == SendCommands(Run(w.cards[w.slots[s]], data), commands, valid_responses, 0, 10)
        d == ReceiveBytes([h EXCEPT !.checksum = Xor(msb, lsb)], 0, SECTOR_SIZE)
        card_checksum == send(d.card, \h00, nullopt)
        end == send(card_checksum.card, \h00, d.output)
    IN  IF h.failed THEN SlotResult(WithCard(w, s, h.card), FALSE, h.data)
        ELSE IF d.failed THEN SlotResult(WithCard(w, s, d.card), FALSE, d.data)
        ELSE IF ~card_checksum.ret
             THEN SlotResult(WithCard(w, s, card_checksum.card), FALSE, d.data)
        ELSE SlotResult(WithCard(w, s, end.card),
                        ~end.ret /\ end.data = \h47 /\ card_checksum.data = d.checksum,
                        d.data)

\* a variant of the footer loop of write_sector that expects an ack on the
\* last transfer too
ReceiveFooter_ExpectsAck(run, i, valid) ==
    LET r == send(run.card, \h00, run.output) IN
    IF run.failed THEN run
    ELSE [run EXCEPT !.card = r.card,
                     !.output = r.data,
                     !.failed = ~r.ret \/ (valid # nullopt /\ r.data # valid)]

\* one turn of the loop of write_sector that receives the footer
ReceiveFooter(run, i, valid) ==
    LET r == send(run.card, \h00, run.output) IN
    IF run.failed THEN run
    ELSE [run EXCEPT !.card = r.card,
                     !.output = r.data,
                     !.failed = (~r.ret /\ i # 2) \/ (valid # nullopt /\ r.data # valid)]

write_sector(w, s, index, data) ==
    IF w.slots[s] = nullptr THEN SlotResult(w, FALSE, data)
    ELSE
    LET msb == SectorMSB(index)
        lsb == SectorLSB(index)
        commands == <<\h81, \h57, \h00, \h00, msb, lsb>>
        valid_responses == <<nullopt, nullopt, \h5A, \h5D, nullopt, nullopt>>
        h == SendCommands(Run(w.cards[w.slots[s]], data), commands, valid_responses, 0, 6)
        d == SendBytes([h EXCEPT !.checksum = Xor(msb, lsb)], 0, SECTOR_SIZE)
        c == send(d.card, d.checksum, d.output)
        f == ReceiveFooter(ReceiveFooter(ReceiveFooter(
                 [d EXCEPT !.card = c.card, !.output = c.data], 0, \h5C), 1, \h5D), 2, nullopt)
    IN  IF h.failed THEN SlotResult(WithCard(w, s, h.card), FALSE, data)
        ELSE IF d.failed THEN SlotResult(WithCard(w, s, d.card), FALSE, data)
        ELSE IF ~c.ret THEN SlotResult(WithCard(w, s, c.card), FALSE, data)
        ELSE IF f.failed THEN SlotResult(WithCard(w, s, f.card), FALSE, data)
        ELSE SlotResult(WithCard(w, s, f.card), f.output = \h47, data)

(***************************************************************************)
(* read_block and read_card.  The template recursion                       *)
(* _read_block_sector<0> ... <63> (and _read_card_block<0> ... <15>) is a   *)
(* chain of "read and rest": the rest is not evaluated once a read has      *)
(* returned false.  The chain over lo..hi-1 is unrolled by halves.  A chain *)
(* carries the world, its result so far, the caller's buffer, and calls,    *)
(* the indices read_sector (read_block) was called with, in order.          *)
(***************************************************************************)
Chain(w, data) == [w |-> w, ret |-> TRUE, data |-> data, calls |-> <<>>]

\* the chain after one more read, of index i, with result r stored in data[k]
Link(ch, r, k, i) ==
    [w |-> r.w, ret |-> r.ret, data |-> [ch.data EXCEPT ![k] = r.data],
     calls |-> Append(ch.calls, i)]

\* a variant of _read_block_sector that goes on reading after a failed read
RECURSIVE _read_block_sector_ReadsOn(_, _, _, _, _)
_read_block_sector_ReadsOn(ch, s, block_sector, lo, hi) ==
    IF Len(ch.calls) # lo \/ hi <= lo THEN ch
    ELSE IF hi = lo + 1
    THEN LET r == read_sector(ch.w, s, block_sector + lo, ch.data[lo + 1]) IN
         [w |-> r.w, ret |-> ch.ret /\ r.ret,
          data |-> [ch.data EXCEPT ![lo + 1] = r.data],
          calls |-> Append(ch.calls, block_sector + lo)]
    ELSE _read_block_sector_ReadsOn(
             _read_block_sector_ReadsOn(ch, s, block_sector, lo, (lo + hi) \div 2),
             s, block_sector, (lo + hi) \div 2, hi)

RECURSIVE _read_block_sector(_, _, _, _, _)
_read_block_sector(ch, s, block_sector, lo, hi) ==
    IF ~ch.ret \/ hi <= lo THEN ch
    ELSE IF hi = lo + 1
    THEN Link(ch, read_sector(ch.w, s, block_sector + lo, ch.data[lo + 1]),
              lo + 1, block_sector + lo)
    ELSE _read_block_sector(_read_block_sector(ch, s, block_sector, lo, (lo + hi) \div 2),
                            s, block_sector, (lo + hi) \div 2, hi)

\* a variant of read_block that shifts the block number by 5 bits
read_block_ShiftsBy5(w, s, index, data) ==
    IF w.slots[s] = nullptr THEN [Chain(w, data) EXCEPT !.ret = FALSE]
    ELSE _read_block_sector(Chain(w, data), s, index * 32, 0, BLOCK_SECTOR_COUNT)

read_block(w, s, index, data) ==
    IF w.slots[s] = nullptr THEN [Chain(w, data) EXCEPT !.ret = FALSE]
    ELSE _read_block_sector(Chain(w, data), s, index * BLOCK_SECTOR_COUNT,
                            0, BLOCK_SECTOR_COUNT)

RECURSIVE _read_card_block(_, _, _, _)
_read_card_block(ch, s, lo, hi) ==
    IF ~ch.ret \/ hi <= lo THEN ch
    ELSE IF hi = lo + 1
    THEN Link(ch, read_block(ch.w, s, lo, ch.data[lo + 1]), lo + 1, lo)
    ELSE _read_card_block(_read_card_block(ch, s, lo, (lo + hi) \div 2),
                          s, (lo + hi) \div 2, hi)

read_card(w, s, data) ==
    IF w.slots[s] = nullptr THEN [Chain(w, data) EXCEPT !.ret = FALSE]
    ELSE _read_card_block(Chain(w, data), s, 0, CARD_BLOCK_COUNT)

\* write_block and write_card return at once, without a value
write_block(w, s, index, data) == SlotResult(w, "void", data)

write_card(w, s, data) == SlotResult(w, "void", data)

(***************************************************************************)
(* The host.  It owns one card and calls power_on, power_off and send on   *)
(* it, one call per step.  Each send passes a data variable that holds     *)
(* std::nullopt, as every call site of the tests does (TriState output =   *)
(* std::nullopt).  The host follows the frame layout of the protocol: it   *)
(* sends any input of Inputs outside a frame, any of Commands as the       *)
(* command byte, any of MSBs and LSBs as the address, one of the payloads  *)
(* of Patterns as the data of a write, a right, an inverted or an absent   *)
(* checksum, and any of Fill where the card ignores its input.             *)
(***************************************************************************)
VARIABLES
    card,    \* the MemoryCard object
    last,    \* the last call: its name, input and results, and the card before it
    frame,   \* the host's record of the frame it is sending, or has just sent
    env,     \* the frames the host may start and has started, the address
             \* bytes it uses, and the store as it was at power_off
    world    \* the slots and the cards they may hold

vars == <<card, last, frame, env, world>>

\* the host sends the command byte of at most MaxFrames frames
MaxFrames == 2

\* a host that may switch the power in the middle of a frame sends the
\* command byte of at most MaxCutFrames frames
MaxCutFrames == 1

Inputs == {\h00, \h81, nullopt}

Commands == Inputs \cup {\h52, \h57, \h53}

MSBs == {\h00, \h03, \h04, nullopt}

LSBs == {\h00, \hFF, nullopt}

\* the address bytes of a host that may switch the power in the middle of a
\* frame: the last sector, 0x3FF, and the out-of-range sector 0x4FF
CutMSBs == {\h03, \h04}

CutLSBs == {\hFF}

Fill == {\h00, \h81}

Patterns == {1, 2}

\* byte i of payload p: payload 1 is 128 concrete bytes, payload 2 starts
\* with a high-impedance input and the byte 0x81, and its third byte makes
\* the xor of the payload as the card receives it 0xFF
Payload(p, i) ==
    IF p = 1 THEN (3 * i + 2) % 256
    ELSE IF i = 0 THEN nullopt
    ELSE IF i = 1 THEN \h81
    ELSE IF i = 2 THEN \h7D
    ELSE 255 - i

\* the contents a card may be constructed with
Seeds == {0, 1}

\* the indeterminate content of the members the constructors do not set
Scratch ==
    { [sub_state |-> "RECV_MEMCARD_ID_1", address |-> 0, byte_counter |-> 0,
       checksum |-> 0],
      [sub_state |-> "RECV_END_BYTE", address |-> \hFFFF, byte_counter |-> 200,
       checksum |-> \hFF] }

\* the first data byte of a write frame is transfer 6, its checksum is
\* transfer 6 + SECTOR_SIZE (tests: inputs[6 + i] = data[i], inputs[134])
HEADER_LEN == 6

RECURSIVE XorPayloadRange(_, _, _)
\* the xor of bytes lo..hi-1 of payload p as the card receives them, by halves
XorPayloadRange(p, lo, hi) ==
    IF hi <= lo THEN 0
    ELSE IF hi = lo + 1 THEN value_or(Payload(p, lo), \hFF)
    ELSE Xor(XorPayloadRange(p, lo, (lo + hi) \div 2),
             XorPayloadRange(p, (lo + hi) \div 2, hi))

\* the xor of the first n bytes of payload p
XorPayload(p, n) == XorPayloadRange(p, 0, n)

\* the checksum a host computes for the frame it sent: msb ^ lsb ^ data
HostChecksum(f) ==
    Xor(Xor(value_or(f.msb, \hFF), value_or(f.lsb, \hFF)), XorPayload(f.pat, SECTOR_SIZE))

NoStore == [seed |-> nullopt, w |-> [o \in {} |-> 0]]

\* a host that drives its card directly has no slots
NoWorld == [cards |-> [k \in {} |-> 0], slots |-> [s \in {} |-> 0]]

NoFrame ==
    [open |-> FALSE, len |-> 0, first |-> nullopt, cmd |-> nullopt, msb |-> nullopt, lsb |-> nullopt,
     pat |-> 0, ck |-> nullopt, bytes0 |-> NoStore]

\* what the host may send as transfer number frame.len of the open frame
HostInputs ==
    IF ~frame.open THEN Inputs
    ELSE IF frame.len = 1 THEN (IF env.frames < env.max_frames THEN Commands ELSE {})
    ELSE IF frame.cmd \in {\h52, \h57} /\ frame.len = 4 THEN env.msbs
    ELSE IF frame.cmd \in {\h52, \h57} /\ frame.len = 5 THEN env.lsbs
    ELSE IF frame.cmd = \h57 /\ frame.len = HEADER_LEN
         THEN {Payload(p, 0) : p \in Patterns}
    ELSE IF frame.cmd = \h57 /\ frame.len > HEADER_LEN
                             /\ frame.len < HEADER_LEN + SECTOR_SIZE
         THEN {Payload(frame.pat, frame.len - HEADER_LEN)}
    ELSE IF frame.cmd = \h57 /\ frame.len = HEADER_LEN + SECTOR_SIZE
         THEN {HostChecksum(frame), 255 - HostChecksum(frame), nullopt}
    ELSE Fill

\* the host's record after it sent command as transfer number f.len
Sent(f, command) ==
    [f EXCEPT !.len = f.len + 1,
              !.first = IF f.len = 0 THEN command ELSE f.first,
              !.cmd = IF f.len = 1 THEN command ELSE f.cmd,
              !.msb = IF f.len = 4 THEN command ELSE f.msb,
              !.lsb = IF f.len = 5 THEN command ELSE f.lsb,
              !.pat = IF f.len = HEADER_LEN /\ f.cmd = \h57
                      THEN CHOOSE p \in Patterns : Payload(p, 0) = command
                      ELSE f.pat,
              !.ck  = IF f.len = HEADER_LEN + SECTOR_SIZE /\ f.cmd = \h57
                      THEN command ELSE f.ck]

Call(op, command, r) ==
    [op |-> op, cmd |-> command, ret |-> r.ret, data |-> r.data, pre |-> card]

\* a card as one of the constructors leaves it, with a host that will start
\* at most max_frames frames and address the sectors msbs x lsbs
Start(max_frames, msbs, lsbs) ==
    /\ \E seed \in Seeds, scratch \in Scratch : card = MemoryCard(seed, scratch)
    /\ last = [op |-> "new", cmd |-> nullopt, ret |-> FALSE, data |-> nullopt,
               pre |-> card]
    /\ frame = NoFrame
    /\ world = NoWorld
    /\ env = [max_frames |-> max_frames, msbs |-> msbs, lsbs |-> lsbs, frames |-> 0,
              off_bytes |-> NoStore]

Init == Start(MaxFrames, MSBs, LSBs)

InitCut == Start(MaxCutFrames, CutMSBs, CutLSBs)

\* power_on() between two frames
PowerOn ==
    LET r == power_on(card) IN
    /\ ~frame.open
    /\ card' = r.card
    /\ last' = Call("power_on", nullopt, r)
    /\ UNCHANGED <<frame, env, world>>

\* power_off() between two frames
PowerOff ==
    LET r == power_off(card) IN
    /\ ~frame.open
    /\ card' = r.card
    /\ last' = Call("power_off", nullopt, r)
    /\ env' = IF r.ret THEN [env EXCEPT !.off_bytes = card.bytes] ELSE env
    /\ UNCHANGED <<frame, world>>

\* power_on() in the middle of a frame
Retry ==
    LET r == power_on(card) IN
    /\ frame.open
    /\ card' = r.card
    /\ last' = Call("power_on", nullopt, r)
    /\ UNCHANGED <<frame, env, world>>

\* power_off() in the middle of a frame: the host gives the frame up, and
\* starts no other frame
Cut ==
    LET r == power_off(card) IN
    /\ frame.open
    /\ card' = r.card
    /\ last' = Call("power_off", nullopt, r)
    /\ frame' = [frame EXCEPT !.open = FALSE]
    /\ env' = [env EXCEPT !.frames = env.max_frames, !.off_bytes = card.bytes]
    /\ UNCHANGED world

\* send(command, data) with data = std::nullopt
Send ==
    \E command \in HostInputs :
        LET r == send(card, command, nullopt)
            f == IF frame.open THEN Sent(frame, command)
                 ELSE Sent([NoFrame EXCEPT !.bytes0 = card.bytes], command)
        IN  /\ card' = r.card
            /\ last' = Call("send", command, r)
            /\ frame' = IF frame.open THEN [f EXCEPT !.open = r.ret]
                        ELSE IF r.ret THEN [f EXCEPT !.open = TRUE]
                        ELSE NoFrame
            /\ env' = [env EXCEPT !.frames = IF frame.open /\ frame.len = 1
                                             THEN @ + 1 ELSE @,
                                  !.off_bytes = IF card.powered_on THEN NoStore
                                                ELSE @]
            /\ UNCHANGED world

\* the host runs whole frames, and switches the power between frames
Next == PowerOn \/ PowerOff \/ Send

Spec == Init /\ [][Next]_vars

\* the host may also switch the power in the middle of a frame
NextCut == PowerOn \/ PowerOff \/ Send \/ Cut \/ Retry

SpecCut == InitCut /\ [][NextCut]_vars

(***************************************************************************)
(* The host of the slots.  It owns the slots and the cards of world, and   *)
(* calls the operations of MemoryCardSlot on them, one call per step; it   *)
(* never calls a card directly.  last holds the call: its name, the slot,  *)
(* its argument (a card, a command, an index, or an index and a buffer),   *)
(* its results, and the world before it.                                   *)
(***************************************************************************)
Slots == {"s0", "s1"}

Cards == {"c0", "c1"}

\* the host of two slots makes at most MaxSends calls of send
MaxSends == 3

\* calls: the sectors (blocks) a read_block (read_card) read, in order
SlotCall(op, s, arg, r) ==
    [op |-> op, slot |-> s, arg |-> arg, ret |-> r.ret, data |-> r.data, pre |-> world,
     calls |-> <<>>]

\* empty slots, and cards as the constructors leave them
StartSlots(slots, cards, commands, max_sends, max_ops) ==
    /\ \E seed \in Seeds, scratch \in Scratch :
           world = [cards |-> [k \in cards |-> MemoryCard(IF k = "c0" THEN seed ELSE 0,
                                                          scratch)],
                    slots |-> [s \in slots |-> nullptr]]
    /\ card = world.cards["c0"]
    /\ last = [op |-> "new", slot |-> nullptr, arg |-> nullopt, ret |-> FALSE,
               data |-> nullopt, pre |-> world, calls |-> <<>>]
    /\ frame = NoFrame
    /\ env = [commands |-> commands, max_sends |-> max_sends, max_ops |-> max_ops,
              sends |-> 0, ops |-> 0]

InitSlot == StartSlots(Slots, Cards, Commands, MaxSends, 0)

\* insert_card(card); the host inserts and sends before its first sector,
\* block or card operation
InsertCard ==
    /\ env.ops = 0
    /\ \E s \in DOMAIN world.slots, k \in DOMAIN world.cards :
           \E r \in {insert_card(world, s, k)} :
               /\ world' = r.w
               /\ last' = SlotCall("insert_card", s, k, r)
               /\ UNCHANGED <<card, frame, env>>

\* remove_card()
RemoveCard ==
    \E s \in DOMAIN world.slots :
        \E r \in {remove_card(world, s)} :
            /\ world' = r.w
            /\ last' = SlotCall("remove_card", s, nullopt, r)
            /\ UNCHANGED <<card, frame, env>>

\* send(command, data) on a slot, with data = std::nullopt
SlotSend ==
    /\ env.ops = 0
    /\ env.sends < env.max_sends
    /\ \E s \in DOMAIN world.slots, command \in env.commands :
           \E r \in {slot_send(world, s, command, nullopt)} :
               /\ world' = r.w
               /\ last' = SlotCall("send", s, command, r)
               /\ env' = [env EXCEPT !.sends = @ + 1]
               /\ UNCHANGED <<card, frame>>

NextSlot == InsertCard \/ RemoveCard \/ SlotSend

SpecSlot == InitSlot /\ [][NextSlot]_vars

(***************************************************************************)
(* The host of one slot and one card that uses the higher level I/O API.   *)
(* It first inserts, removes and sends by hand (at most MaxIOSends sends,  *)
(* which may leave the card in the middle of a frame), then makes at most  *)
(* MaxOps calls of the sector, block and card operations, on the sectors   *)
(* of SectorIndices and the blocks of BlockIndices, with the buffers of    *)
(* SectorData, and may remove the card at any time.                        *)
(***************************************************************************)
MaxIOSends == 2

MaxOps == 2

\* the first sector, the last sector, and the first index past the card
SectorIndices == {\h000, \h3FF, \h400}

BlockIndices == {0, 15}

\* the buffer the host passes to read_sector, read_block and read_card
BlankSector == [i \in 1..SECTOR_SIZE |-> \hE5]

BlankBlock == [i \in 1..BLOCK_SECTOR_COUNT |-> BlankSector]

BlankCard == [i \in 1..CARD_BLOCK_COUNT |-> BlankBlock]

\* the data the host writes: 128 bytes that start with 0x81 and end with
\* 0x47, whose xor is not 0, or 128 times 0x00
SectorData ==
    { [i \in 1..SECTOR_SIZE |-> IF i = SECTOR_SIZE THEN \h47 ELSE (3 * i + 126) % 256],
      [i \in 1..SECTOR_SIZE |-> \h00] }

\* the data of a block or card write: sector j holds the bytes j, j + 1, ...
BlockData == [j \in 1..BLOCK_SECTOR_COUNT |-> [i \in 1..SECTOR_SIZE |-> (i + j) % 256]]

CardData == [b \in 1..CARD_BLOCK_COUNT |-> BlockData]

\* what the host of the I/O API sends by hand: the byte that opens a frame
\* and the read command
IOCommands == {\h81, \h52}

InitIO == StartSlots({"s0"}, {"c0"}, IOCommands, MaxIOSends, MaxOps)

\* read_sector(index, data)
ReadSector ==
    /\ env.ops < env.max_ops
    /\ \E s \in DOMAIN world.slots, index \in SectorIndices :
           \E r \in {read_sector(world, s, index, BlankSector)} :
               /\ world' = r.w
               /\ last' = SlotCall("read_sector", s, index, r)
               /\ env' = [env EXCEPT !.ops = @ + 1, !.sends = env.max_sends]
               /\ UNCHANGED <<card, frame>>

\* write_sector(index, data)
WriteSector ==
    /\ env.ops < env.max_ops
    /\ \E s \in DOMAIN world.slots, index \in SectorIndices, data \in SectorData :
           \E r \in {write_sector(world, s, index, data)} :
               /\ world' = r.w
               /\ last' = SlotCall("write_sector", s, [index |-> index, data |-> data], r)
               /\ env' = [env EXCEPT !.ops = @ + 1, !.sends = env.max_sends]
               /\ UNCHANGED <<card, frame>>

\* write_block(index, data)
WriteBlock ==
    /\ env.ops < env.max_ops
    /\ \E s \in DOMAIN world.slots, index \in BlockIndices :
           \E r \in {write_block(world, s, index, BlockData)} :
               /\ world' = r.w
               /\ last' = SlotCall("write_block", s, [index |-> index, data |-> BlockData], r)
               /\ env' = [env EXCEPT !.ops = @ + 1, !.sends = env.max_sends]
               /\ UNCHANGED <<card, frame>>

\* write_card(data)
WriteCard ==
    /\ env.ops < env.max_ops
    /\ \E s \in DOMAIN world.slots :
           \E r \in {write_card(world, s, CardData)} :
               /\ world' = r.w
               /\ last' = SlotCall("write_card", s, [data |-> CardData], r)
               /\ env' = [env EXCEPT !.ops = @ + 1, !.sends = env.max_sends]
               /\ UNCHANGED <<card, frame>>

NextIO ==
    \/ InsertCard \/ RemoveCard \/ SlotSend
    \/ ReadSector \/ WriteSector \/ WriteBlock \/ WriteCard

SpecIO == InitIO /\ [][NextIO]_vars

(***************************************************************************)
(* The host that also reads whole blocks and the whole card.  It reads a   *)
(* block or the card straight after it inserted the card, or straight      *)
(* after a send that the card acknowledged (which leaves the card in the   *)
(* middle of a frame); it also reads a block straight after its first      *)
(* operation, when that was a write_sector that returned true.  A block or *)
(* card read is its last sector, block or card operation.                  *)
(***************************************************************************)
\* the card has just been inserted, or has just acknowledged a send
JustInsertedOrSent ==
    \/ last.op = "insert_card" /\ last.ret /\ env.sends = 0
    \/ last.op = "send" /\ last.ret

\* read_block(index, data)
ReadBlock ==
    /\ env.ops < env.max_ops
    /\ \/ env.ops = 0 /\ JustInsertedOrSent
       \/ env.ops = 1 /\ last.op = "write_sector" /\ last.ret
    /\ \E s \in DOMAIN world.slots, index \in BlockIndices :
           \E r \in {read_block(world, s, index, BlankBlock)} :
               /\ world' = r.w
               /\ last' = [SlotCall("read_block", s, index, r) EXCEPT !.calls = r.calls]
               /\ env' = [env EXCEPT !.ops = env.max_ops, !.sends = env.max_sends]
               /\ UNCHANGED <<card, frame>>

\* read_card(data)
ReadCard ==
    /\ env.ops = 0
    /\ JustInsertedOrSent
    /\ \E s \in DOMAIN world.slots :
           \E r \in {read_card(world, s, BlankCard)} :
               /\ world' = r.w
               /\ last' = [SlotCall("read_card", s, nullopt, r) EXCEPT !.calls = r.calls]
               /\ env' = [env EXCEPT !.ops = env.max_ops, !.sends = env.max_sends]
               /\ UNCHANGED <<card, frame>>

NextCard == NextIO \/ ReadBlock \/ ReadCard

SpecCard == InitIO /\ [][NextCard]_vars

(***************************************************************************)
(* The host that compares a slot with a control card.  One slot holds a    *)
(* card; card is a second MemoryCard, constructed like the first and       *)
(* powered on, that the host drives directly.  Every input goes to both,   *)
(* each with a data variable that holds std::nullopt.  The host follows    *)
(* the frame layout as above, and may give a frame up at any point and     *)
(* carry on as if no frame were open.                                      *)
(***************************************************************************)
\* the host starts at most MaxPassFrames frames
MaxPassFrames == 2

\* the host gives up at most MaxAbandons frames
MaxAbandons == 1

InitPass ==
    /\ \E seed \in Seeds, scratch \in Scratch :
           /\ world = insert_card([cards |-> [k \in {"c0"} |-> MemoryCard(seed, scratch)],
                                   slots |-> [s \in {"s0"} |-> nullptr]], "s0", "c0").w
           /\ card = power_on(MemoryCard(seed, scratch)).card
    /\ last = [op |-> "insert_card", slot |-> "s0", arg |-> "c0", ret |-> TRUE,
               data |-> nullopt, pre |-> world, calls |-> <<>>,
               control_ret |-> TRUE, control_data |-> nullopt]
    /\ frame = NoFrame
    /\ env = [max_frames |-> MaxPassFrames, msbs |-> CutMSBs, lsbs |-> CutLSBs,
              frames |-> 0, abandoned |-> 0]

\* slot.send(command, response) and control.send(command, control_response)
PassSend ==
    \E s \in DOMAIN world.slots, command \in HostInputs :
        \E r \in {slot_send(world, s, command, nullopt)},
           c \in {send(card, command, nullopt)} :
            LET f == IF frame.open THEN Sent(frame, command)
                     ELSE Sent([NoFrame EXCEPT !.bytes0 = card.bytes], command)
            IN  /\ world' = r.w
                /\ card' = c.card
                /\ last' = [op |-> "send", slot |-> s, arg |-> command, ret |-> r.ret,
                            data |-> r.data, pre |-> world, calls |-> <<>>,
                            control_ret |-> c.ret, control_data |-> c.data]
                /\ frame' = IF frame.open THEN [f EXCEPT !.open = c.ret]
                            ELSE IF c.ret THEN [f EXCEPT !.open = TRUE]
                            ELSE NoFrame
                /\ env' = [env EXCEPT !.frames = IF frame.open /\ frame.len = 1
                                                 THEN @ + 1 ELSE @]

\* the host gives the open frame up; it starts no other frame, and sends
\* what it may send outside a frame
Abandon ==
    /\ frame.open
    /\ env.abandoned < MaxAbandons
    /\ frame' = NoFrame
    /\ env' = [env EXCEPT !.frames = env.max_frames, !.abandoned = @ + 1]
    /\ last' = [last EXCEPT !.op = "abandon"]
    /\ UNCHANGED <<card, world>>

NextPass == PassSend \/ Abandon

SpecPass == InitPass /\ [][NextPass]_vars

(***************************************************************************)
(* The host that mixes the two levels.  One slot holds a card; the host    *)
(* first sends by hand through the slot, following the frame layout, and   *)
(* may give the frame up at any point, which leaves the card at any step   *)
(* of a read, write or identify frame; it then makes one call: it reads   *)
(* or writes the last sector, or, when the card is in the middle of a      *)
(* frame, reads a block or the whole card.  card is the control card of    *)
(* the sends, as above.                                                    *)
(***************************************************************************)
\* the host starts at most MaxMidFrames frames by hand
MaxMidFrames == 1

\* the card's store is not blank
MidSeed == 1

\* the sector the host reads or writes after its sends, and the block it
\* reads
MidIndex == \h3FF

MidBlock == 15

\* the data it writes: 128 bytes that start with 0x81 and end with 0x47
MidData == [i \in 1..SECTOR_SIZE |-> IF i = SECTOR_SIZE THEN \h47 ELSE (3 * i + 126) % 256]

InitMid ==
    /\ \E scratch \in Scratch :
           /\ world = insert_card([cards |-> [k \in {"c0"} |-> MemoryCard(MidSeed, scratch)],
                                   slots |-> [s \in {"s0"} |-> nullptr]], "s0", "c0").w
           /\ card = power_on(MemoryCard(MidSeed, scratch)).card
    /\ last = [op |-> "insert_card", slot |-> "s0", arg |-> "c0", ret |-> TRUE,
               data |-> nullopt, pre |-> world, calls |-> <<>>,
               control_ret |-> TRUE, control_data |-> nullopt]
    /\ frame = NoFrame
    /\ env = [max_frames |-> MaxMidFrames, msbs |-> CutMSBs, lsbs |-> CutLSBs,
              frames |-> 0, abandoned |-> 0, commands |-> {},
              sends |-> 0, max_sends |-> 0, ops |-> 0, max_ops |-> 1]

\* the held card is in the middle of a frame
MidFrame == world.cards["c0"].state # "IDLE"

\* read_sector(MidIndex, data)
MidReadSector ==
    /\ env.ops < env.max_ops
    /\ \E r \in {read_sector(world, "s0", MidIndex, BlankSector)} :
           /\ world' = r.w
           /\ last' = SlotCall("read_sector", "s0", MidIndex, r)
           /\ env' = [env EXCEPT !.ops = @ + 1]
           /\ UNCHANGED <<card, frame>>

\* write_sector(MidIndex, MidData)
MidWriteSector ==
    /\ env.ops < env.max_ops
    /\ \E r \in {write_sector(world, "s0", MidIndex, MidData)} :
           /\ world' = r.w
           /\ last' = SlotCall("write_sector", "s0", [index |-> MidIndex, data |-> MidData], r)
           /\ env' = [env EXCEPT !.ops = @ + 1]
           /\ UNCHANGED <<card, frame>>

\* read_block(MidBlock, data), straight after a send that the card
\* acknowledged
MidReadBlock ==
    /\ env.ops < env.max_ops
    /\ last.op = "send" /\ last.ret
    /\ \E r \in {read_block(world, "s0", MidBlock, BlankBlock)} :
           /\ world' = r.w
           /\ last' = [SlotCall("read_block", "s0", MidBlock, r) EXCEPT !.calls = r.calls]
           /\ env' = [env EXCEPT !.ops = @ + 1]
           /\ UNCHANGED <<card, frame>>

NextMid ==
    \/ env.ops = 0 /\ PassSend
    \/ env.ops = 0 /\ Abandon
    \/ MidReadSector
    \/ MidWriteSector
    \/ MidReadBlock
    \/ MidFrame /\ ReadCard

SpecMid == InitMid /\ [][NextMid]_vars

(***************************************************************************)
(* The host of two slots and two cards that also calls the cards' public   *)
(* power_on and power_off itself, whether a slot holds the card or not,    *)
(* and makes at most MaxPowerSends calls of send on the slots.             *)
(***************************************************************************)
MaxPowerSends == 1

InitPower == StartSlots(Slots, Cards, {\h81}, MaxPowerSends, 0)

\* card.power_on(), called by the host on the card itself
CardPowerOn ==
    \E k \in DOMAIN world.cards :
        \E r \in {power_on(world.cards[k])} :
            /\ world' = [world EXCEPT !.cards[k] = r.card]
            /\ last' = SlotCall("power_on", nullptr, k, r)
            /\ UNCHANGED <<card, frame, env>>

\* card.power_off(), called by the host on the card itself
CardPowerOff ==
    \E k \in DOMAIN world.cards :
        \E r \in {power_off(world.cards[k])} :
            /\ world' = [world EXCEPT !.cards[k] = r.card]
            /\ last' = SlotCall("power_off", nullptr, k, r)
            /\ UNCHANGED <<card, frame, env>>

NextPower == InsertCard \/ RemoveCard \/ SlotSend \/ CardPowerOn \/ CardPowerOff

SpecPower == InitPower /\ [][NextPower]_vars

(***************************************************************************)
(* MemoryCard::_state_machine, the engine as a coroutine.  The coroutine   *)
(* frame is held as the place where the coroutine is suspended (at, named  *)
(* after the co_yield that suspended it) and its locals checksum, address  *)
(* and counter.  A resumption runs from that place to the next co_yield,   *)
(* reading data_in, a reference to the caller's input, as it is at the     *)
(* resumption; yielded is false when the coroutine returned instead.       *)
(***************************************************************************)
NewGenerator == [at |-> "initial", checksum |-> 0, address |-> 0, counter |-> 0]

Yield(g, at, ack, data) ==
    [gen |-> [g EXCEPT !.at = at], yielded |-> TRUE, ret |-> ack, data |-> data]

Return(g) ==
    [gen |-> [g EXCEPT !.at = "done"], yielded |-> FALSE, ret |-> FALSE, data |-> nullopt]

_state_machine(g, this, data_in) ==
    CASE g.at \in {"initial", "ignored"} ->
             IF data_in # \h81
             THEN Yield(g, "ignored", FALSE, nullopt)
             ELSE Yield(g, "selected", TRUE, nullopt)
      [] g.at = "selected" -> Yield(g, "flag", TRUE, this.flag)
      [] g.at = "flag" ->
             CASE value_or(data_in, \h00) = \h52 -> Yield(g, "id_1", TRUE, \h5A)
               [] value_or(data_in, \h00) \in {\h57, \h53} -> Return(g)
               [] OTHER -> Yield(g, "no_command", FALSE, nullopt)
      [] g.at = "id_1" -> Yield(g, "id_2", TRUE, \h5D)
      [] g.at = "id_2" ->
             Yield([g EXCEPT !.checksum = value_or(data_in, \hFF),
                             !.address = (value_or(data_in, \hFF) * 256) % 65536],
                   "address_msb", TRUE, \h00)
      [] g.at = "address_msb" ->
             LET address == BitOr(g.address, value_or(data_in, \hFF)) IN
             Yield([g EXCEPT !.checksum = Xor(g.checksum, address % 256),
                             !.address = IF address > _LAST_SECTOR THEN \hFFFF ELSE address],
                   "address_lsb", TRUE, \h00)
      [] g.at = "address_lsb" -> Yield(g, "ack_1", TRUE, \h5C)
      [] g.at = "ack_1" -> Yield(g, "ack_2", TRUE, \h5D)
      [] g.at = "ack_2" -> Yield(g, "confirm_msb", TRUE, g.address \div 256)
      [] g.at = "confirm_msb" ->
             IF g.address = \hFFFF
             THEN Yield(g, "bad_sector", FALSE, g.address % 256)
             ELSE Yield(g, "confirm_lsb", TRUE, g.address % 256)
      [] g.at \in {"confirm_lsb", "data"} ->
             LET counter == IF g.at = "confirm_lsb" THEN 0 ELSE (g.counter + 1) % 256 IN
             IF counter < 128
             THEN LET data == ByteAt(this.bytes, get_sector(g.address) + counter) IN
                  Yield([g EXCEPT !.counter = counter, !.checksum = Xor(g.checksum, data)],
                        "data", TRUE, data)
             ELSE Yield([g EXCEPT !.counter = counter], "checksum", TRUE, g.checksum)
      [] g.at = "checksum" -> Yield(g, "good_read", FALSE, \h47)
      [] OTHER -> Return(g)

(***************************************************************************)
(* The host that compares the two formulations.  It has two cards made by  *)
(* the same constructor and powered on; it sends to one with send and      *)
(* drives the coroutine of the other (this), with the same inputs: at most *)
(* MaxIgnored bytes that are not 0x81, then 0x81, a command byte that is   *)
(* 0x52 or not a command, and the rest of a read frame, until send ends    *)
(* the frame (over) or the coroutine returns.                              *)
(***************************************************************************)
MaxIgnored == 1

GenIgnored == {\h00, \h52, nullopt}

GenCommands == {\h52, \h00, \h99, nullopt}

\* the byte sent at the first ID step: 0x00 as read_sector and the tests
\* send it, or some other byte
GenFirstID == {\h00, \h52}

GenMSBs == {\h00, \h03, \h04}

GenLSBs == {\h00, \hFF}

RECURSIVE Ignored(_)
Ignored(n) ==
    IF n = 0 THEN {<<>>}
    ELSE Ignored(n - 1) \cup {q \o <<b>> : q \in Ignored(n - 1), b \in GenIgnored}

GenInputs ==
    {q \o <<\h81, c, i, \h00, m, l>> \o [k \in 1..(SECTOR_SIZE + 6) |-> \h00] :
        q \in Ignored(MaxIgnored), c \in GenCommands, i \in GenFirstID,
        m \in GenMSBs, l \in GenLSBs}

InitGen ==
    /\ \E seed \in Seeds, scratch \in Scratch, inputs \in GenInputs :
           /\ card = power_on(MemoryCard(seed, scratch)).card
           /\ env = [inputs |-> inputs, n |-> 0, over |-> FALSE, gen |-> NewGenerator,
                     this |-> card]
    /\ last = [op |-> "power_on", cmd |-> nullopt, ret |-> TRUE, data |-> nullopt,
               pre |-> card, yielded |-> FALSE, gen_ret |-> FALSE, gen_data |-> nullopt]
    /\ frame = NoFrame
    /\ world = NoWorld

\* one transfer: send(command, data) on the card, with data = std::nullopt,
\* and one resumption of the coroutine with data_in = command
GenTransfer ==
    /\ env.n < Len(env.inputs)
    /\ ~env.over
    /\ env.gen.at # "done"
    /\ \E command \in {env.inputs[env.n + 1]} :
           \E r \in {send(card, command, nullopt)},
              y \in {_state_machine(env.gen, env.this, command)} :
               /\ card' = r.card
               /\ env' = [env EXCEPT !.n = @ + 1, !.gen = y.gen,
                                      !.over = (card.state # "IDLE" /\ ~r.ret)]
               /\ last' = [op |-> "transfer", cmd |-> command, ret |-> r.ret,
                           data |-> r.data, pre |-> card, yielded |-> y.yielded,
                           gen_ret |-> y.ret, gen_data |-> y.data]
    /\ UNCHANGED <<frame, world>>

NextGen == GenTransfer

SpecGen == InitGen /\ [][NextGen]_vars

(***************************************************************************)
(* Properties.  A frame is read off the host's record: after a send,       *)
(* frame.len - 1 is the number of the transfer just made (0 for the 0x81   *)
(* that opened the frame), and last holds its input, ack and response.     *)
(***************************************************************************)
\* the last call was transfer number frame.len - 1 of a frame
InFrame == last.op = "send" /\ frame.len >= 1

\* the address the host sent, when both bytes were concrete
IsByte(t) == t \in Byte

HostAddress == frame.msb * 256 + frame.lsb

\* the address the card decodes from what the host sent
DecodedAddress == value_or(frame.msb, \hFF) * 256 + value_or(frame.lsb, \hFF)

\* the payloads that consist of 128 concrete bytes
BytePatterns == {p \in Patterns : \A i \in 0..127 : IsByte(Payload(p, i))}

RECURSIVE XorBytes(_, _, _)
\* the xor of bytes lo..hi-1 of store b, by halves
XorBytes(b, lo, hi) ==
    IF hi <= lo THEN 0
    ELSE IF hi = lo + 1 THEN ByteAt(b, lo)
    ELSE Xor(XorBytes(b, lo, (lo + hi) \div 2), XorBytes(b, (lo + hi) \div 2, hi))

\* the xor of the first n bytes of sector a of store b
XorSector(b, a, n) == XorBytes(b, a * 128, a * 128 + n)

\* the frame sent so far is the beginning of a read of a valid sector
ReadValidFrame ==
    /\ InFrame
    /\ frame.first = \h81
    /\ frame.len >= 2 => frame.cmd = \h52
    /\ frame.len >= 6 => /\ IsByte(frame.msb) /\ IsByte(frame.lsb)
                         /\ HostAddress <= \h3FF

\* response number n of a read of sector HostAddress
ReadResponse(n) ==
    CASE n = 0 -> nullopt
      [] n = 1 -> last.pre.flag
      [] n = 2 -> \h5A
      [] n = 3 -> \h5D
      [] n \in {4, 5} -> \h00
      [] n = 6 -> \h5C
      [] n = 7 -> \h5D
      [] n = 8 -> frame.msb
      [] n = 9 -> frame.lsb
      [] n \in 10..137 -> ByteAt(frame.bytes0, HostAddress * 128 + (n - 10))
      [] n = 138 -> Xor(Xor(frame.msb, frame.lsb), XorSector(frame.bytes0, HostAddress, 128))
      [] n = 139 -> \h47
      [] OTHER -> nullopt

\* C1: a read of a valid sector A = (MSB << 8) | LSB <= 0x3FF, started on a
\* powered card in Idle, takes 140 transfers; whatever the other inputs are,
\* the responses are absent, flag, 0x5A, 0x5D, 0x00, 0x00, 0x5C, 0x5D, MSB,
\* LSB, the 128 bytes of sector A in index order, MSB xor LSB xor the xor of
\* these bytes, 0x47; every transfer but the last is acknowledged, and the
\* card is in Idle after the last.
C1_ReadValidSector ==
    ReadValidFrame =>
        /\ frame.len <= 140
        /\ last.data = ReadResponse(frame.len - 1)
        /\ last.ret = (frame.len # 140)
        /\ frame.len = 1 => last.pre.powered_on /\ last.pre.state = "IDLE"
        /\ frame.len = 140 => card.state = "IDLE"

\* a read of sector 0x3FF of a card constructed with non-zero data has
\* delivered its last byte
C1_Witness ==
    /\ ReadValidFrame
    /\ frame.len = 140
    /\ HostAddress = \h3FF
    /\ frame.bytes0.seed = 1
    /\ last.data = \h47
    /\ ~last.ret

\* the frame sent so far is the beginning of a write of 128 concrete bytes
\* to a valid sector with the right checksum
WriteGoodFrame ==
    /\ InFrame
    /\ frame.first = \h81
    /\ frame.len >= 2 => frame.cmd = \h57
    /\ frame.len >= 6 => /\ IsByte(frame.msb) /\ IsByte(frame.lsb)
                         /\ HostAddress <= \h3FF
    /\ frame.len >= 7 => frame.pat \in BytePatterns
    /\ frame.len >= 135 =>
           frame.ck = Xor(Xor(frame.msb, frame.lsb), XorPayload(frame.pat, 128))

\* response number n of a write that ends with status end
WriteResponse(n, end) ==
    CASE n = 0 -> nullopt
      [] n = 1 -> last.pre.flag
      [] n = 2 -> \h5A
      [] n = 3 -> \h5D
      [] n \in 4..134 -> \h00
      [] n = 135 -> \h5C
      [] n = 136 -> \h5D
      [] n = 137 -> end
      [] OTHER -> nullopt

\* C2: a write of the 128 bytes D to a valid sector A with the checksum
\* MSB xor LSB xor (xor of D), started on a powered card in Idle, takes 138
\* transfers; the responses are absent, flag, 0x5A, 0x5D, 0x00 for the
\* address, the data and the checksum bytes, 0x5C, 0x5D, 0x47; every transfer
\* but the last is acknowledged; afterwards sector A of the store equals D
\* and the card is in Idle.
C2_GoodWrite ==
    WriteGoodFrame =>
        /\ frame.len <= 138
        /\ last.data = WriteResponse(frame.len - 1, \h47)
        /\ last.ret = (frame.len # 138)
        /\ frame.len = 1 => last.pre.powered_on /\ last.pre.state = "IDLE"
        /\ frame.len = 138 =>
               /\ card.state = "IDLE"
               /\ \A i \in 0..127 :
                      ByteAt(card.bytes, HostAddress * 128 + i) = Payload(frame.pat, i)

\* a good write to sector 0x300 has ended and has changed the store
C2_Witness ==
    /\ WriteGoodFrame
    /\ frame.len = 138
    /\ HostAddress = \h300
    /\ last.data = \h47
    /\ card.bytes # frame.bytes0

\* a write frame has ended
WriteEnded == InFrame /\ frame.first = \h81 /\ frame.cmd = \h57 /\ ~frame.open

\* C3: the end-status byte of a completed write frame (the response of its
\* transfer 137) is 0xFF if the decoded address is above 0x3FF, whatever the
\* checksum; otherwise 0x4E if the checksum the host sent is not the xor of
\* the address bytes and the 128 data bytes as received; otherwise 0x47.
C3_EndStatus ==
    WriteEnded =>
        /\ frame.len = 138
        /\ last.data = IF DecodedAddress > \h3FF THEN \hFF
                       ELSE IF frame.ck # HostChecksum(frame) THEN \h4E
                       ELSE \h47

\* a write to the out-of-range sector 0x400 with the right checksum has ended
\* with status 0xFF
C3_Witness ==
    /\ WriteEnded
    /\ HostAddress = \h400
    /\ frame.ck = HostChecksum(frame)
    /\ last.data = \hFF

\* a write to a valid sector with a wrong checksum has ended with status 0x4E
C3_WitnessBadChecksum ==
    /\ WriteEnded
    /\ DecodedAddress <= \h3FF
    /\ IsByte(frame.ck)
    /\ last.data = \h4E

\* the frame sent so far is the beginning of a read of an out-of-range sector
ReadInvalidFrame ==
    /\ InFrame
    /\ frame.first = \h81
    /\ frame.len >= 2 => frame.cmd = \h52
    /\ frame.len >= 6 => /\ IsByte(frame.msb) /\ IsByte(frame.lsb)
                         /\ HostAddress > \h3FF

\* C4: a read of a sector (MSB << 8) | LSB > 0x3FF takes 10 transfers: the
\* card replaces the address by 0xFFFF, responds absent, flag, 0x5A, 0x5D,
\* 0x00, 0x00, 0x5C, 0x5D, 0xFF, 0xFF, acknowledges the first nine transfers
\* and not the tenth, sends no sector data and is in Idle after the tenth.
C4_ReadInvalidSector ==
    ReadInvalidFrame =>
        /\ frame.len <= 10
        /\ last.data = CASE frame.len \in {9, 10} -> \hFF
                         [] OTHER -> ReadResponse(frame.len - 1)
        /\ last.ret = (frame.len # 10)
        /\ frame.len >= 6 => card.address = \hFFFF
        /\ frame.len = 10 => card.state = "IDLE"

\* a read of sector 0x400 has ended at its tenth transfer
C4_Witness ==
    /\ ReadInvalidFrame
    /\ frame.len = 10
    /\ HostAddress = \h400
    /\ ~frame.open
    /\ last.data = \hFF

\* the frame sent so far is the beginning of an identify frame
IdentifyFrame ==
    /\ InFrame
    /\ frame.first = \h81
    /\ frame.len >= 2 => frame.cmd = \h53

\* C5: an identify frame, 0x81, 0x53 and eight more transfers with any
\* inputs, started on a powered card in Idle, gets the responses absent, flag,
\* 0x5A, 0x5D, 0x5C, 0x5D, 0x04, 0x00, 0x00, 0x80; the first nine transfers
\* are acknowledged, the tenth is not, and the card is in Idle afterwards.
C5_Identify ==
    IdentifyFrame =>
        /\ frame.len <= 10
        /\ last.data = <<nullopt, last.pre.flag, \h5A, \h5D, \h5C, \h5D,
                         \h04, \h00, \h00, \h80>>[frame.len]
        /\ last.ret = (frame.len # 10)
        /\ frame.len = 1 => last.pre.powered_on /\ last.pre.state = "IDLE"
        /\ frame.len = 10 => card.state = "IDLE"

\* an identify frame has ended; its last input was the byte 0x81
C5_Witness ==
    /\ IdentifyFrame
    /\ frame.len = 10
    /\ last.cmd = \h81
    /\ last.data = \h80
    /\ ~last.ret

\* the last call was a send to a powered card in Idle
IdleSend == last.op = "send" /\ last.pre.powered_on /\ last.pre.state = "IDLE"

\* C6: a powered card in Idle answers every input other than the byte 0x81
\* (any other byte, or the absent value) with ack = false and an absent
\* response and is left as it was, in Idle; 0x81 gets ack = true and an absent
\* response and moves the card to AwaitingCommand.
C6_IdleInput ==
    /\ IdleSend =>
           /\ last.data = nullopt
           /\ last.ret = (last.cmd = \h81)
           /\ card = IF last.cmd = \h81
                     THEN [last.pre EXCEPT !.state = "AWAITING_COMMAND"]
                     ELSE last.pre
    /\ (card.powered_on /\ card.state = "IDLE") =>
           \A x \in TriState :
               LET r == send(card, x, nullopt) IN
               /\ r.data = nullopt
               /\ r.ret = (x = \h81)
               /\ r.card.state = IF x = \h81 THEN "AWAITING_COMMAND" ELSE "IDLE"
               /\ x # \h81 => r.card = card

\* a powered card in Idle has refused a high-impedance input after a frame
\* that changed its store
C6_Witness ==
    /\ IdleSend
    /\ last.cmd = nullopt
    /\ ~last.ret
    /\ last.data = nullopt
    /\ card.state = "IDLE"
    /\ DOMAIN card.bytes.w # {}

\* the last call was a send to a powered card in AwaitingCommand
CommandSend ==
    last.op = "send" /\ last.pre.powered_on /\ last.pre.state = "AWAITING_COMMAND"

\* the protocol state a command byte selects, if any
CommandState(x) ==
    CASE x = \h52 -> "READ_DATA_COMMAND"
      [] x = \h57 -> "WRITE_DATA_COMMAND"
      [] x = \h53 -> "GET_MEMCARD_ID_COMMAND"
      [] OTHER -> "IDLE"

\* C7: a card in AwaitingCommand answers every input with the flag byte; for
\* 0x52, 0x57 and 0x53 it acknowledges and enters the first step of the read,
\* write or identify sequence (whose response is 0x5A); for any other input,
\* the absent value included, it does not acknowledge and is back in Idle,
\* where the next 0x81 is acknowledged and opens a fresh frame.
C7_AwaitingCommand ==
    /\ CommandSend =>
           /\ last.data = last.pre.flag
           /\ last.ret = (last.cmd \in {\h52, \h57, \h53})
           /\ card.state = CommandState(last.cmd)
    /\ (card.powered_on /\ card.state = "AWAITING_COMMAND") =>
           \A x \in TriState :
               LET r == send(card, x, nullopt) IN
               /\ r.data = card.flag
               /\ r.ret = (x \in {\h52, \h57, \h53})
               /\ r.card.state = CommandState(x)
               /\ r.ret => /\ r.card.sub_state = "RECV_MEMCARD_ID_1"
                           /\ send(r.card, \h00, nullopt).data = \h5A
               /\ ~r.ret => LET n == send(r.card, \h81, nullopt) IN
                            /\ n.ret
                            /\ n.card.state = "AWAITING_COMMAND"

\* a card in AwaitingCommand has refused a high-impedance command byte
C7_Witness ==
    /\ CommandSend
    /\ last.cmd = nullopt
    /\ ~last.ret
    /\ last.data = \h08
    /\ card.state = "IDLE"
    /\ frame.len = 2

\* C8: a send to an unpowered card returns ack = false and an absent
\* response, whatever the input and whatever protocol state the card was in
\* when it lost power, and changes nothing in the card: protocol state,
\* scratch variables and store stay as they were.
C8_Unpowered ==
    /\ (last.op = "send" /\ ~last.pre.powered_on) =>
           /\ ~last.ret
           /\ last.data = nullopt
           /\ card = last.pre
    /\ ~card.powered_on =>
           \A x \in TriState : send(card, x, nullopt) = Result(card, FALSE, nullopt)

\* a card that lost power in the data phase of a write has refused the byte
\* 0x81
C8_Witness ==
    /\ last.op = "send"
    /\ ~last.pre.powered_on
    /\ last.cmd = \h81
    /\ ~last.ret
    /\ card.state = "WRITE_DATA_COMMAND"
    /\ card.sub_state = "SEND_DATA_SECTOR"
    /\ DOMAIN card.bytes.w # {}

\* C9: power_on returns true exactly when the card was unpowered, and leaves
\* it powered; power_off returns true exactly when the card was powered, and
\* leaves it unpowered; a card is constructed unpowered; on an unpowered card
\* power_on, power_off, power_on return true, true, true; an immediate repeat
\* of either operation returns false.
C9_Power ==
    /\ last.op = "new" => ~card.powered_on
    /\ last.op = "power_on" => /\ last.ret = ~last.pre.powered_on
                               /\ card.powered_on
    /\ last.op = "power_off" => /\ last.ret = last.pre.powered_on
                                /\ ~card.powered_on
    /\ ~power_on(power_on(card).card).ret
    /\ ~power_off(power_off(card).card).ret
    /\ ~card.powered_on =>
           LET a == power_on(card)
               b == power_off(a.card)
               c == power_on(b.card)
           IN  a.ret /\ b.ret /\ c.ret

\* power_on has been refused in the middle of a frame, on a powered card
C9_Witness ==
    /\ last.op = "power_on"
    /\ ~last.ret
    /\ last.pre.powered_on
    /\ frame.open
    /\ card.state = "READ_DATA_COMMAND"

\* a card that was powered on and off has been powered on again
C9_WitnessAgain ==
    /\ last.op = "power_on"
    /\ last.ret
    /\ env.off_bytes # NoStore

\* C10: a successful power_on, also one that follows a power_off in the
\* middle of a read, write or identify frame, leaves the card in Idle with
\* flag 0x08 and every byte of the store as it was at power_off; the next 0x81
\* is acknowledged and opens a fresh frame, whose command byte is answered
\* with the flag.
C10_PowerOnResets ==
    (last.op = "power_on" /\ last.ret) =>
        /\ card.powered_on
        /\ card.state = "IDLE"
        /\ card.flag = \h08
        /\ card.bytes = last.pre.bytes
        /\ env.off_bytes # NoStore => card.bytes = env.off_bytes
        /\ LET r == send(card, \h81, nullopt)
               n == send(r.card, \h53, nullopt)
           IN  /\ r.ret
               /\ r.card.state = "AWAITING_COMMAND"
               /\ n.ret
               /\ n.data = \h08

\* a card that lost power in the data phase of a write, after it stored some
\* of the data, has been powered on again
C10_Witness ==
    /\ last.op = "power_on"
    /\ last.ret
    /\ last.pre.state = "WRITE_DATA_COMMAND"
    /\ last.pre.sub_state = "SEND_DATA_SECTOR"
    /\ DOMAIN card.bytes.w # {}
    /\ card.bytes = env.off_bytes
    /\ card.state = "IDLE"

(***************************************************************************)
(* Properties of MemoryCardSlot.                                           *)
(***************************************************************************)
\* the slots of world w that hold card k
Holders(w, k) == {s \in DOMAIN w.slots : w.slots[s] = k}

\* C11: whatever insert_card and remove_card calls (and sends) were made on
\* two slots and two cards, no card is held by two slots at once.  An
\* insert_card returns true exactly when its slot was empty and no slot held
\* the card; and from any state in which slots s0 and s1 are empty and card c
\* is free, s0.insert_card(c) returns true, then s1.insert_card(c) returns
\* false, then s0.remove_card() returns true, then s1.insert_card(c) returns
\* true.
C11_MutualExclusion ==
    /\ \A k \in DOMAIN world.cards : Cardinality(Holders(world, k)) <= 1
    /\ last.op = "insert_card" =>
           last.ret = (/\ last.pre.slots[last.slot] = nullptr
                       /\ Holders(last.pre, last.arg) = {})
    /\ \A s0 \in DOMAIN world.slots, s1 \in DOMAIN world.slots, c \in DOMAIN world.cards :
           (s0 # s1 /\ world.slots[s0] = nullptr /\ world.slots[s1] = nullptr
                    /\ Holders(world, c) = {}) =>
               LET r1 == insert_card(world, s0, c)
                   r2 == insert_card(r1.w, s1, c)
                   r3 == remove_card(r2.w, s0)
                   r4 == insert_card(r3.w, s1, c)
               IN  /\ r1.ret /\ r1.w.slots[s0] = c
                   /\ ~r2.ret /\ r2.w.slots[s1] = nullptr
                   /\ r3.ret /\ r3.w.slots[s0] = nullptr
                   /\ r4.ret /\ r4.w.slots[s1] = c

\* an empty slot has refused a card that the other slot holds, and before
\* that the other slot had taken the card after a first slot released it
C11_Witness ==
    /\ last.op = "insert_card"
    /\ ~last.ret
    /\ last.pre.slots[last.slot] = nullptr
    /\ Holders(last.pre, last.arg) # {}
    /\ world.slots[last.slot] = nullptr
    /\ world.cards[last.arg].powered_on

\* C12: after any sequence of insert_card, remove_card, send, read_sector,
\* write_sector, read_block, write_block, read_card and write_card calls,
\* every card that a slot holds is powered on; and right after a remove_card
\* that returned true, the slot is empty and the card it held is powered off.
C12_HeldCardPowered ==
    /\ \A s \in DOMAIN world.slots :
           world.slots[s] # nullptr => world.cards[world.slots[s]].powered_on
    /\ (last.op = "remove_card" /\ last.ret) =>
           /\ last.pre.slots[last.slot] # nullptr
           /\ world.slots[last.slot] = nullptr
           /\ ~world.cards[last.pre.slots[last.slot]].powered_on

\* a card has been removed after a sector, block or card operation on it
C12_Witness ==
    /\ last.op = "remove_card"
    /\ last.ret
    /\ env.ops > 0
    /\ last.pre.cards[last.pre.slots[last.slot]].powered_on
    /\ ~world.cards[last.pre.slots[last.slot]].powered_on

\* a card has been removed in the middle of a frame, after a send
C12_WitnessMidFrame ==
    /\ last.op = "remove_card"
    /\ last.ret
    /\ last.pre.cards[last.pre.slots[last.slot]].state # "IDLE"
    /\ ~world.cards[last.pre.slots[last.slot]].powered_on

\* C13: for every sequence of inputs, concrete or absent, in complete frames
\* and in frames the host gave up, each send on a slot that holds a card
\* returns the same ack and leaves the same response as send called
\* directly, with the same input, on a control card that was constructed
\* like the held card, powered on, and given the same inputs so far.
C13_PassThrough ==
    last.op = "send" =>
        /\ last.ret = last.control_ret
        /\ last.data = last.control_data

\* the slot has passed an acknowledged byte through, in the middle of a frame
\* that the host had given up
C13_Witness ==
    /\ last.op = "send"
    /\ env.abandoned > 0
    /\ last.pre.cards[last.pre.slots[last.slot]].state # "IDLE"
    /\ last.ret
    /\ last.data \in Byte
    /\ last.data = last.control_data

\* the slot has passed a refused high-impedance input through
C13_WitnessAbsent ==
    /\ last.op = "send"
    /\ last.arg = nullopt
    /\ ~last.ret
    /\ ~last.control_ret
    /\ last.data = nullopt

\* slot s of world w holds a card that is in Idle
HeldIdle(w, s) ==
    /\ w.slots[s] # nullptr
    /\ w.cards[w.slots[s]].state = "IDLE"

\* the card that slot s of world w holds
Held(w, s) == w.cards[w.slots[s]]

\* the SECTOR_SIZE bytes of sector i of store b
SectorOf(b, i) == [j \in 1..SECTOR_SIZE |-> ByteAt(b, get_sector(i) + j - 1)]

\* the sectors of the card: [0, 1024)
ValidSectors == 0..(CARD_BLOCK_COUNT * BLOCK_SECTOR_COUNT - 1)

\* the 140 inputs of the read frame for the address bytes msb, lsb
ReadInputs(msb, lsb) ==
    <<\h81, \h52, \h00, \h00, msb, lsb, \h00, \h00, \h00, \h00>>
        \o [i \in 1..(SECTOR_SIZE + 2) |-> \h00]

RECURSIVE ReadTransfers(_, _, _, _)
\* transfers lo+1..hi of inputs made one after the other on the card of t,
\* none left out: t.acks and t.resps are the acks and the responses of the
\* transfers made so far.  Each uses the variable output, but for the
\* transfer that fetches the card's checksum, which has a variable of its
\* own.
ReadTransfers(t, inputs, lo, hi) ==
    IF Len(t.acks) >= hi THEN t
    ELSE IF hi = lo + 1
    THEN LET own == (hi = 10 + SECTOR_SIZE + 1)
             r == send(t.card, inputs[hi], IF own THEN nullopt ELSE t.output)
         IN  [card |-> r.card,
              output |-> IF own THEN t.output ELSE r.data,
              acks |-> Append(t.acks, r.ret),
              resps |-> Append(t.resps, r.data)]
    ELSE ReadTransfers(ReadTransfers(t, inputs, lo, (lo + hi) \div 2),
                       inputs, (lo + hi) \div 2, hi)

\* the acks and responses of the 140 transfers of a read of sector index on
\* card c
ReadTrace(c, index) ==
    ReadTransfers([card |-> c, output |-> nullopt, acks |-> <<>>, resps |-> <<>>],
                  ReadInputs(SectorMSB(index), SectorLSB(index)), 0, 10 + SECTOR_SIZE + 2)

RECURSIVE XorSeq(_, _, _)
\* the xor of q[lo+1] .. q[hi], by halves
XorSeq(q, lo, hi) ==
    IF hi <= lo THEN 0
    ELSE IF hi = lo + 1 THEN q[hi]
    ELSE Xor(XorSeq(q, lo, (lo + hi) \div 2), XorSeq(q, (lo + hi) \div 2, hi))

\* what a read that returns true has seen: ten acknowledged transfers with
\* the fixed responses and the echoed address, 129 acknowledged transfers
\* (the data and the checksum), a last transfer that is not acknowledged
\* and answers 0x47, and a checksum equal to msb ^ lsb ^ the data
ReadSeen(t, msb, lsb) ==
    /\ \A n \in 1..(10 + SECTOR_SIZE + 1) : t.acks[n]
    /\ t.resps[3] = \h5A /\ t.resps[4] = \h5D
    /\ t.resps[7] = \h5C /\ t.resps[8] = \h5D
    /\ t.resps[9] = msb /\ t.resps[10] = lsb
    /\ \A n \in 11..(10 + SECTOR_SIZE) : t.resps[n] \in Byte
    /\ ~t.acks[10 + SECTOR_SIZE + 2]
    /\ t.resps[10 + SECTOR_SIZE + 2] = \h47
    /\ t.resps[10 + SECTOR_SIZE + 1] = Xor(Xor(msb, lsb), XorSeq(t.resps, 10, 10 + SECTOR_SIZE))

\* C14: read_sector(i, out) on a slot that holds a card in Idle, for every
\* sector i of the card and every content of the store, returns true and
\* leaves in out the 128 bytes of sector i.  Whenever read_sector returns
\* true, the 140 transfers of the read frame on the card as it was had the
\* first ten and the following 129 acknowledged, the fixed responses 0x5A
\* 0x5D, 0x5C 0x5D and the echoed MSB and LSB, the last transfer not
\* acknowledged with end status 0x47, and the card's checksum equal to
\* MSB ^ LSB ^ the bytes received, which are the bytes left in out.
C14_ReadSector ==
    last.op = "read_sector" =>
        /\ (HeldIdle(last.pre, last.slot) /\ last.arg \in ValidSectors) =>
               /\ last.ret
               /\ last.data = SectorOf(Held(last.pre, last.slot).bytes, last.arg)
        /\ last.ret =>
               /\ last.pre.slots[last.slot] # nullptr
               /\ LET t == ReadTrace(Held(last.pre, last.slot), last.arg) IN
                  /\ ReadSeen(t, SectorMSB(last.arg), SectorLSB(last.arg))
                  /\ last.data = [j \in 1..SECTOR_SIZE |-> t.resps[10 + j]]

\* the last sector of a card has been read after a write_sector changed it
C14_Witness ==
    /\ last.op = "read_sector"
    /\ last.arg = \h3FF
    /\ HeldIdle(last.pre, last.slot)
    /\ last.ret
    /\ DOMAIN Held(last.pre, last.slot).bytes.w # {}
    /\ last.data = SectorOf(Held(last.pre, last.slot).bytes, \h3FF)
    /\ last.data # SectorOf(NewStore(Held(last.pre, last.slot).bytes.seed), \h3FF)

\* read_sector has returned false on a card that was in the middle of a frame
C14_WitnessMidFrame ==
    /\ last.op = "read_sector"
    /\ last.pre.slots[last.slot] # nullptr
    /\ ~HeldIdle(last.pre, last.slot)
    /\ ~last.ret

\* the 138 inputs of the write frame for the address bytes msb, lsb and the
\* 128 bytes data, with the checksum msb ^ lsb ^ data
WriteInputs(msb, lsb, data) ==
    <<\h81, \h57, \h00, \h00, msb, lsb>> \o data
        \o <<Xor(Xor(msb, lsb), XorSeq(data, 0, SECTOR_SIZE))>> \o <<\h00, \h00, \h00>>

RECURSIVE WriteTransfers(_, _, _, _)
\* transfers lo+1..hi of inputs made one after the other on the card of t,
\* none left out, each with the variable output
WriteTransfers(t, inputs, lo, hi) ==
    IF Len(t.acks) >= hi THEN t
    ELSE IF hi = lo + 1
    THEN LET r == send(t.card, inputs[hi], t.output) IN
         [card |-> r.card, output |-> r.data,
          acks |-> Append(t.acks, r.ret), resps |-> Append(t.resps, r.data)]
    ELSE WriteTransfers(WriteTransfers(t, inputs, lo, (lo + hi) \div 2),
                        inputs, (lo + hi) \div 2, hi)

\* the card, the acks and the responses after the 138 transfers of a write of
\* data to sector index on card c
WriteTrace(c, index, data) ==
    WriteTransfers([card |-> c, output |-> nullopt, acks |-> <<>>, resps |-> <<>>],
                   WriteInputs(SectorMSB(index), SectorLSB(index), data),
                   0, HEADER_LEN + SECTOR_SIZE + 4)

\* what a write that returns true has seen: every transfer but the last
\* acknowledged, the fixed responses 0x5A 0x5D and 0x5C 0x5D, and the end
\* status 0x47
WriteSeen(t) ==
    /\ \A n \in 1..(HEADER_LEN + SECTOR_SIZE + 3) : t.acks[n]
    /\ t.resps[3] = \h5A /\ t.resps[4] = \h5D
    /\ t.resps[HEADER_LEN + SECTOR_SIZE + 2] = \h5C
    /\ t.resps[HEADER_LEN + SECTOR_SIZE + 3] = \h5D
    /\ t.resps[HEADER_LEN + SECTOR_SIZE + 4] = \h47

\* stores a and b hold the same bytes outside sector i
SameButSector(a, b, i) ==
    /\ a.seed = b.seed
    /\ \A o \in (DOMAIN a.w \cup DOMAIN b.w) \ (get_sector(i)..(get_sector(i) + SECTOR_SIZE - 1)) :
           ByteAt(a, o) = ByteAt(b, o)

\* C15: write_sector(i, data) on a slot that holds a card in Idle, for every
\* sector i of the card and every 128-byte data, returns true, leaves the
\* card as the complete write frame with the checksum MSB ^ LSB ^ data
\* leaves it, back in Idle, with sector i equal to data and every other
\* sector unchanged.  On any held card, write_sector returns true exactly
\* when the transfers of that frame were acknowledged, the fixed responses
\* matched and the final end-status byte was 0x47.
C15_WriteSector ==
    (last.op = "write_sector" /\ last.pre.slots[last.slot] # nullptr) =>
        LET t == WriteTrace(Held(last.pre, last.slot), last.arg.index, last.arg.data) IN
        /\ last.ret = WriteSeen(t)
        /\ (HeldIdle(last.pre, last.slot) /\ last.arg.index \in ValidSectors) =>
               /\ last.ret
               /\ t.resps[HEADER_LEN + SECTOR_SIZE + 4] = \h47
               /\ world.cards = [last.pre.cards EXCEPT ![last.pre.slots[last.slot]] = t.card]
               /\ HeldIdle(world, last.slot)
               /\ SectorOf(Held(world, last.slot).bytes, last.arg.index) = last.arg.data
               /\ SameButSector(Held(world, last.slot).bytes,
                                Held(last.pre, last.slot).bytes, last.arg.index)

\* the last sector has been written with data that differs from its content,
\* on a card whose first sector an earlier write had changed
C15_Witness ==
    /\ last.op = "write_sector"
    /\ last.arg.index = \h3FF
    /\ HeldIdle(last.pre, last.slot)
    /\ last.ret
    /\ SectorOf(Held(last.pre, last.slot).bytes, \h3FF) # last.arg.data
    /\ SectorOf(Held(world, last.slot).bytes, \h3FF) = last.arg.data
    /\ \E o \in DOMAIN Held(world, last.slot).bytes.w : o < SECTOR_SIZE

\* write_sector has returned false on a card that was in the middle of a frame
C15_WitnessMidFrame ==
    /\ last.op = "write_sector"
    /\ last.pre.slots[last.slot] # nullptr
    /\ ~HeldIdle(last.pre, last.slot)
    /\ ~last.ret

\* C16: on a slot that holds a powered card in Idle, for every sector i of
\* the card and every 128-byte d, write_sector(i, d) returns true and a
\* read_sector(i) that follows it returns true and reads exactly d; also
\* when the write follows earlier complete frames on the card.
C16_RoundTrip ==
    (/\ last.op = "write_sector"
     /\ HeldIdle(last.pre, last.slot)
     /\ last.arg.index \in ValidSectors) =>
        /\ Held(last.pre, last.slot).powered_on
        /\ last.ret
        /\ LET r == read_sector(world, last.slot, last.arg.index, BlankSector) IN
           /\ r.ret
           /\ r.data = last.arg.data
           /\ Held(r.w, last.slot).bytes = Held(world, last.slot).bytes

\* the write was the second operation on the card and replaced the data that
\* the first had written to the last sector, and the read returns the new data
C16_Witness ==
    /\ last.op = "write_sector"
    /\ last.arg.index = \h3FF
    /\ env.ops = 2
    /\ HeldIdle(last.pre, last.slot)
    /\ last.ret
    /\ SectorOf(Held(last.pre, last.slot).bytes, \h3FF) \in SectorData \ {last.arg.data}
    /\ SectorOf(Held(last.pre, last.slot).bytes, \h3FF)
           # SectorOf(NewStore(Held(last.pre, last.slot).bytes.seed), \h3FF)
    /\ read_sector(world, last.slot, \h3FF, BlankSector).data = last.arg.data

\* C17: for every sector index i >= 0x400, read_sector(i, out) and
\* write_sector(i, data) on a slot that holds a powered card in Idle both
\* return false.
C17_OutOfRange ==
    /\ (/\ last.op = "read_sector"
        /\ HeldIdle(last.pre, last.slot)
        /\ last.arg >= \h400) => ~last.ret
    /\ (/\ last.op = "write_sector"
        /\ HeldIdle(last.pre, last.slot)
        /\ last.arg.index >= \h400) => ~last.ret

\* what the code does instead: write_sector(0x400, data) has returned true and
\* replaced the content of sector 0
C17_WriteAliased ==
    /\ last.op = "write_sector"
    /\ last.arg.index = \h400
    /\ HeldIdle(last.pre, last.slot)
    /\ last.ret
    /\ SectorOf(Held(last.pre, last.slot).bytes, 0) # last.arg.data
    /\ SectorOf(Held(world, last.slot).bytes, 0) = last.arg.data

\* the BLOCK_SECTOR_COUNT sectors of block i of store b, in order
BlockOf(b, i) ==
    [j \in 1..BLOCK_SECTOR_COUNT |-> SectorOf(b, i * BLOCK_SECTOR_COUNT + j - 1)]

C18_WitnessCard ==
    /\ last.op = "read_card"
    /\ HeldIdle(last.pre, last.slot)
    /\ last.ret
    /\ last.data[CARD_BLOCK_COUNT][BLOCK_SECTOR_COUNT]
           = SectorOf(Held(last.pre, last.slot).bytes, \h3FF)
    /\ last.data[CARD_BLOCK_COUNT][BLOCK_SECTOR_COUNT][SECTOR_SIZE] # last.data[1][1][1]

\* C19: on a slot that holds a card in Idle, write_block(b, data) for a block
\* b in 0..15 performs the 64 sector writes, so that afterwards block b of
\* the card equals data, and write_card(data) performs the 16 x 64 sector
\* writes, so that afterwards the whole backing store equals data; both
\* report the conjunction of the results of the sector writes (true here:
\* every write_sector on an Idle card returns true).  A call that returns
\* without a value ("void") reports nothing.
C19_WriteBlockCard ==
    /\ (/\ last.op = "write_block"
        /\ HeldIdle(last.pre, last.slot)
        /\ last.arg.index \in 0..(CARD_BLOCK_COUNT - 1)) =>
           /\ BlockOf(Held(world, last.slot).bytes, last.arg.index) = last.arg.data
           /\ last.ret # "void"
           /\ last.ret
    /\ (last.op = "write_card" /\ HeldIdle(last.pre, last.slot)) =>
           /\ [b \in 1..CARD_BLOCK_COUNT |-> BlockOf(Held(world, last.slot).bytes, b - 1)]
                  = last.arg.data
           /\ last.ret # "void"
           /\ last.ret

\* what the code does instead: write_block and write_card have returned
\* without a value on a card in Idle, and the card is as it was
C19_NothingWritten ==
    /\ last.op \in {"write_block", "write_card"}
    /\ HeldIdle(last.pre, last.slot)
    /\ last.ret = "void"
    /\ world = last.pre
    /\ BlockOf(Held(world, last.slot).bytes, 0) # BlockData

\* the indices from first on, n of them, in ascending order
Ascending(first, n) == [j \in 1..n |-> first + j - 1]

\* C20 as stated: read_block(b, out) on a slot that holds a card performs
\* exactly 64 sector reads, on sectors 64*b .. 64*b+63 in ascending order,
\* whatever the outcome of the earlier ones, and read_card(out) performs all
\* 16 block reads in ascending order.
C20_AllReads ==
    /\ (last.op = "read_block" /\ last.pre.slots[last.slot] # nullptr) =>
           last.calls = Ascending(last.arg * BLOCK_SECTOR_COUNT, BLOCK_SECTOR_COUNT)
    /\ (last.op = "read_card" /\ last.pre.slots[last.slot] # nullptr) =>
           last.calls = Ascending(0, CARD_BLOCK_COUNT)

\* C20, amended: read_block(b, out) on a slot that holds a card reads the
\* sectors 64*b, 64*b+1, ... in ascending order up to and including the
\* first read that returns false and performs no read after it: when the
\* first read returns false it is the only one, all 64 reads are performed
\* whenever read_block returns true, and read_block returns the result of
\* the last read it performed, so true iff 64 reads were performed and all
\* returned true.  read_card likewise reads the blocks 0, 1, ... in
\* ascending order up to and including the first read_block that returns
\* false.
C20_ReadsUntilFailure ==
    /\ (last.op = "read_block" /\ last.pre.slots[last.slot] # nullptr) =>
           LET n == Len(last.calls)
               first == read_sector(last.pre, last.slot,
                                    last.arg * BLOCK_SECTOR_COUNT, BlankSector)
           IN /\ n \in 1..BLOCK_SECTOR_COUNT
              /\ last.calls = Ascending(last.arg * BLOCK_SECTOR_COUNT, n)
              /\ (n = 1) <=> ~first.ret
              /\ last.ret => n = BLOCK_SECTOR_COUNT
              /\ n < BLOCK_SECTOR_COUNT => ~last.ret
    /\ (last.op = "read_card" /\ last.pre.slots[last.slot] # nullptr) =>
           LET n == Len(last.calls)
               first == read_block(last.pre, last.slot, 0, BlankBlock)
           IN /\ n \in 1..CARD_BLOCK_COUNT
              /\ last.calls = Ascending(0, n)
              /\ (n = 1) <=> ~first.ret
              /\ last.ret => n = CARD_BLOCK_COUNT
              /\ n < CARD_BLOCK_COUNT => ~last.ret

\* read_block has stopped after the first sector read, which failed on a
\* card that the host had left in the middle of a frame
C20_Witness ==
    /\ last.op = "read_block"
    /\ last.pre.slots[last.slot] # nullptr
    /\ ~HeldIdle(last.pre, last.slot)
    /\ ~last.ret
    /\ last.calls = <<last.arg * BLOCK_SECTOR_COUNT>>

\* read_block has performed all 64 sector reads of the last block
C20_WitnessAll ==
    /\ last.op = "read_block"
    /\ last.ret
    /\ last.calls = Ascending((CARD_BLOCK_COUNT - 1) * BLOCK_SECTOR_COUNT,
                              BLOCK_SECTOR_COUNT)

\* read_card has stopped after the first block read, which failed
C20_WitnessCard ==
    /\ last.op = "read_card"
    /\ last.pre.slots[last.slot] # nullptr
    /\ ~last.ret
    /\ last.calls = <<0>>

(***************************************************************************)
(* Properties of the error paths and of whole frames.                      *)
(***************************************************************************)
\* C21: on an empty slot, send, remove_card, read_sector, write_sector,
\* write_block and write_card each return false, make no transfer on any
\* card (every card is as it was) and leave the slot empty; and on every
\* empty slot read_block and read_card return false and leave the world as
\* it was.  A call that returns without a value ("void") does not return
\* false.
C21_NoCard ==
    /\ (/\ last.op \in {"send", "remove_card", "read_sector", "write_sector"}
        /\ last.pre.slots[last.slot] = nullptr) =>
           /\ ~last.ret
           /\ world = last.pre
    /\ (/\ last.op \in {"write_block", "write_card"}
        /\ last.pre.slots[last.slot] = nullptr) =>
           /\ last.ret # "void"
           /\ world = last.pre
    /\ \A s \in DOMAIN world.slots :
           world.slots[s] = nullptr =>
               /\ \A b \in BlockIndices :
                      read_block(world, s, b, BlankBlock)
                          = [w |-> world, ret |-> FALSE, data |-> BlankBlock, calls |-> <<>>]
               /\ read_card(world, s, BlankCard)
                      = [w |-> world, ret |-> FALSE, data |-> BlankCard, calls |-> <<>>]

\* what the code does instead: write_block or write_card on a slot whose card
\* had been removed has returned without a value; the slot is still empty
\* and no card has changed
C21_ReturnsNothing ==
    /\ last.op \in {"write_block", "write_card"}
    /\ last.pre.slots[last.slot] = nullptr
    /\ \E k \in DOMAIN last.pre.cards : ~last.pre.cards[k].powered_on /\ last.pre.cards[k].state # "IDLE"
    /\ last.ret = "void"
    /\ world = last.pre

\* a write frame to a valid address has ended, and the checksum the host sent
\* (a byte, or nothing) is not the xor of the address and data bytes
WriteBadChecksumEnded ==
    /\ WriteEnded
    /\ DecodedAddress <= \h3FF
    /\ frame.ck # HostChecksum(frame)

\* C22: a write frame to a valid address whose host checksum is wrong takes
\* the 138 transfers of a write, ends with status 0x4E, and the 128 data bytes
\* are stored all the same: after the frame the addressed sector holds the
\* data sent (0xFF where the host sent nothing).
C22_BadChecksumStored ==
    WriteBadChecksumEnded =>
        /\ frame.len = 138
        /\ ~last.ret
        /\ last.data = \h4E
        /\ card.state = "IDLE"
        /\ \A i \in 0..(SECTOR_SIZE - 1) :
               ByteAt(card.bytes, DecodedAddress * SECTOR_SIZE + i)
                   = value_or(Payload(frame.pat, i), \hFF)

\* a write of 128 concrete bytes to sector 0x3FF with an inverted checksum
\* has ended with status 0x4E and has changed the store
C22_Witness ==
    /\ WriteBadChecksumEnded
    /\ HostAddress = \h3FF
    /\ frame.pat \in BytePatterns
    /\ frame.ck = 255 - HostChecksum(frame)
    /\ last.data = \h4E
    /\ card.bytes # frame.bytes0
    /\ ByteAt(card.bytes, \h3FF * SECTOR_SIZE + 127) = Payload(frame.pat, 127)

\* the frame sent so far is the beginning of a write to an address that the
\* card decodes as out of range
WriteInvalidFrame ==
    /\ InFrame
    /\ frame.first = \h81
    /\ frame.len >= 2 => frame.cmd = \h57
    /\ frame.len >= 6 => DecodedAddress > \h3FF

\* C23: a write frame whose address is above 0x3FF still takes the 138
\* transfers of a write: the responses are absent, flag, 0x5A, 0x5D, 0x00 for
\* the two address bytes, the 128 data bytes and the checksum, then 0x5C,
\* 0x5D, 0xFF; every transfer but the last is acknowledged; and at every
\* transfer of the frame the backing store is, byte for byte, what it was
\* before the frame.
C23_BadSectorWrite ==
    WriteInvalidFrame =>
        /\ frame.len <= 138
        /\ last.data = WriteResponse(frame.len - 1, \hFF)
        /\ last.ret = (frame.len # 138)
        /\ card.bytes = frame.bytes0
        /\ frame.len >= 6 => card.address = \hFFFF
        /\ frame.len = 138 => card.state = "IDLE"

\* a write of 128 concrete bytes to sector 0x400 of a non-zero store, with
\* the right checksum, has ended with status 0xFF
C23_Witness ==
    /\ WriteInvalidFrame
    /\ frame.len = 138
    /\ HostAddress = \h400
    /\ frame.pat \in BytePatterns
    /\ frame.ck = HostChecksum(frame)
    /\ frame.bytes0.seed = 1
    /\ last.data = \hFF
    /\ ~last.ret
    /\ card.bytes = frame.bytes0

\* the last call was the command transfer (the second transfer) of a frame
\* that 0x81 opened
CommandTransfer == InFrame /\ frame.first = \h81 /\ frame.len = 2

\* C24: in every frame that 0x81 opens on a powered card, whatever frames
\* came before since the card was powered on (reads, good, bad-checksum and
\* bad-sector writes, identify frames, rejected commands), the response to
\* the command transfer is 0x08; a powered card's flag is 0x08 at all times.
C24_FlagByte ==
    /\ CommandTransfer => last.data = \h08
    /\ card.powered_on => card.flag = \h08

\* the command transfer of a second frame has been answered with 0x08, after
\* a first frame that was a write and changed the store
C24_Witness ==
    /\ CommandTransfer
    /\ env.frames = 2
    /\ last.cmd = \h57
    /\ last.data = \h08
    /\ DOMAIN card.bytes.w # {}

\* the inputs tried on every reachable state of the card: the bytes the
\* card decodes, two bytes it does not, and the absent input
Probes == Commands \cup {\hFF}

\* the last call was a send to a powered card
PoweredSend == last.op = "send" /\ last.pre.powered_on

\* C25: whenever a transfer on a powered card returns ack = false, the card
\* is in Idle right after that transfer; whenever it returns ack = true, the
\* card is not in Idle.  This holds of the transfers the host made and of
\* every transfer, with any input of Probes, it could make next.
C25_AckIffNotIdle ==
    /\ PoweredSend => (last.ret <=> card.state # "IDLE")
    /\ card.powered_on =>
           \A x \in Probes :
               \E r \in {send(card, x, nullopt)} : r.ret <=> r.card.state # "IDLE"

\* a read of an out-of-range sector has been refused at its tenth transfer
\* and has left the card in Idle
C25_Witness ==
    /\ PoweredSend
    /\ ~last.ret
    /\ last.pre.state = "READ_DATA_COMMAND"
    /\ last.pre.sub_state = "RECV_CONFIRM_ADDRESS_LSB"
    /\ card.state = "IDLE"

\* a data byte of a write has been acknowledged, and the card is not in Idle
C25_WitnessAck ==
    /\ PoweredSend
    /\ last.ret
    /\ last.pre.sub_state = "SEND_DATA_SECTOR"
    /\ card.state = "WRITE_DATA_COMMAND"

\* C26: power-state violations are no-ops.  power_on on a card that is
\* already powered returns false and leaves the card exactly as it was, a
\* frame in progress included.  An insert_card fails exactly when the slot is
\* occupied or the offered card is already powered, and then no slot's
\* binding and no card (power, protocol state, store) has changed: an
\* unpowered card offered to an occupied slot stays unpowered.  A remove_card
\* on an empty slot returns false and changes nothing.
C26_ViolationsAreNoOps ==
    /\ \A k \in DOMAIN world.cards :
           world.cards[k].powered_on =>
               power_on(world.cards[k]) = Result(world.cards[k], FALSE, nullopt)
    /\ last.op = "insert_card" =>
           /\ ~last.ret <=> \/ last.pre.slots[last.slot] # nullptr
                            \/ last.pre.cards[last.arg].powered_on
           /\ ~last.ret => world = last.pre
    /\ (last.op = "remove_card" /\ last.pre.slots[last.slot] = nullptr) =>
           /\ ~last.ret
           /\ world = last.pre

\* an unpowered card has been refused by a slot that holds another card in
\* the middle of a frame, and is still unpowered
C26_Witness ==
    /\ last.op = "insert_card"
    /\ ~last.ret
    /\ last.pre.slots[last.slot] \notin {nullptr, last.arg}
    /\ last.pre.cards[last.pre.slots[last.slot]].state = "READ_DATA_COMMAND"
    /\ ~last.pre.cards[last.arg].powered_on
    /\ ~world.cards[last.arg].powered_on
    /\ world = last.pre

\* a card that another slot holds in the middle of a frame has been refused
\* by an empty slot: its power_on returned false and its frame goes on
C26_WitnessPowered ==
    /\ last.op = "insert_card"
    /\ ~last.ret
    /\ last.pre.slots[last.slot] = nullptr
    /\ last.pre.cards[last.arg].powered_on
    /\ world.cards[last.arg].state = "AWAITING_COMMAND"
    /\ world = last.pre

\* remove_card has been refused by an empty slot
C26_WitnessRemove ==
    /\ last.op = "remove_card"
    /\ ~last.ret
    /\ last.pre.slots[last.slot] = nullptr
    /\ \E s \in DOMAIN world.slots : world.slots[s] # nullptr

\* card c is powered and in the data phase of a write to a valid address
WriteDataStep(c) ==
    /\ c.powered_on
    /\ c.state = "WRITE_DATA_COMMAND"
    /\ c.sub_state = "SEND_DATA_SECTOR"
    /\ c.address <= _LAST_SECTOR

\* stores a and b hold the same byte at every offset but o
SameButByte(a, b, o) ==
    /\ a.seed = b.seed
    /\ \A x \in (DOMAIN a.w \cup DOMAIN b.w) \ {o} : ByteAt(a, x) = ByteAt(b, x)

\* C27: a transfer on a powered card in the data phase of a write to an
\* address <= 0x3FF sets the byte at offset address * 128 + byte_counter of
\* the backing store to the input byte (0xFF for an absent input) and leaves
\* every other byte as it was.  Every other transfer (in Idle, in
\* AwaitingCommand, at every step of read and identify, at the other steps
\* of write, in the data phase of a write to a poisoned address, on an
\* unpowered card) and every power_on and power_off leaves all bytes of the
\* backing store as they were.
C27_StoreChanges ==
    /\ (last.op = "send" /\ WriteDataStep(last.pre)) =>
           LET o == last.pre.address * SECTOR_SIZE + last.pre.byte_counter IN
           /\ last.pre.byte_counter < SECTOR_SIZE
           /\ ByteAt(card.bytes, o) = value_or(last.cmd, \hFF)
           /\ SameButByte(card.bytes, last.pre.bytes, o)
    /\ (last.op = "send" /\ ~WriteDataStep(last.pre)) => card.bytes = last.pre.bytes
    /\ last.op \in {"power_on", "power_off"} => card.bytes = last.pre.bytes

\* the last data byte of a write to sector 0x3FF has changed byte 127 of
\* that sector, the last byte of the store, and no other
C27_Witness ==
    /\ last.op = "send"
    /\ WriteDataStep(last.pre)
    /\ last.pre.address = \h3FF
    /\ last.pre.byte_counter = 127
    /\ card.bytes # last.pre.bytes
    /\ ByteAt(card.bytes, CARD_SIZE - 1) = last.cmd
    /\ ByteAt(last.pre.bytes, CARD_SIZE - 1) # last.cmd

\* a data transfer of a read of a non-zero store has left the store as it was
C27_WitnessRead ==
    /\ last.op = "send"
    /\ last.pre.powered_on
    /\ last.pre.state = "READ_DATA_COMMAND"
    /\ last.pre.sub_state = "RECV_DATA_SECTOR"
    /\ last.data # \h00
    /\ card.bytes = last.pre.bytes

\* the number, within its frame, of the transfer card c expects next: 0 in
\* Idle, 1 for the command byte, then the steps of the read, write or
\* identify sequence in the order of their switch
FrameStep(c) ==
    CASE c.state = "IDLE" -> 0
      [] c.state = "AWAITING_COMMAND" -> 1
      [] c.state = "READ_DATA_COMMAND" ->
             (CASE c.sub_state = "RECV_MEMCARD_ID_1" -> 2
                [] c.sub_state = "RECV_MEMCARD_ID_2" -> 3
                [] c.sub_state = "SEND_ADDRESS_MSB" -> 4
                [] c.sub_state = "SEND_ADDRESS_LSB" -> 5
                [] c.sub_state = "RECV_COMMAND_ACK_1" -> 6
                [] c.sub_state = "RECV_COMMAND_ACK_2" -> 7
                [] c.sub_state = "RECV_CONFIRM_ADDRESS_MSB" -> 8
                [] c.sub_state = "RECV_CONFIRM_ADDRESS_LSB" -> 9
                [] c.sub_state = "RECV_DATA_SECTOR" -> 10 + c.byte_counter
                [] c.sub_state = "RECV_CHECKSUM" -> 10 + SECTOR_SIZE
                [] c.sub_state = "RECV_END_BYTE" -> 11 + SECTOR_SIZE
                [] OTHER -> -1)
      [] c.state = "WRITE_DATA_COMMAND" ->
             (CASE c.sub_state = "RECV_MEMCARD_ID_1" -> 2
                [] c.sub_state = "RECV_MEMCARD_ID_2" -> 3
                [] c.sub_state = "SEND_ADDRESS_MSB" -> 4
                [] c.sub_state = "SEND_ADDRESS_LSB" -> 5
                [] c.sub_state = "SEND_DATA_SECTOR" -> HEADER_LEN + c.byte_counter
                [] c.sub_state = "SEND_CHECKSUM" -> HEADER_LEN + SECTOR_SIZE
                [] c.sub_state = "RECV_COMMAND_ACK_1" -> HEADER_LEN + SECTOR_SIZE + 1
                [] c.sub_state = "RECV_COMMAND_ACK_2" -> HEADER_LEN + SECTOR_SIZE + 2
                [] c.sub_state = "RECV_END_BYTE" -> HEADER_LEN + SECTOR_SIZE + 3
                [] OTHER -> -1)
      [] c.state = "GET_MEMCARD_ID_COMMAND" ->
             (CASE c.sub_state = "RECV_MEMCARD_ID_1" -> 2
                [] c.sub_state = "RECV_MEMCARD_ID_2" -> 3
                [] c.sub_state = "RECV_COMMAND_ACK_1" -> 4
                [] c.sub_state = "RECV_COMMAND_ACK_2" -> 5
                [] c.sub_state = "RECV_INFO_1" -> 6
                [] c.sub_state = "RECV_INFO_2" -> 7
                [] c.sub_state = "RECV_INFO_3" -> 8
                [] c.sub_state = "RECV_INFO_4" -> 9
                [] OTHER -> -1)
      [] OTHER -> -1

\* the steps of a frame at which the card looks at its input
AddressStep(c) ==
    /\ c.state \in {"READ_DATA_COMMAND", "WRITE_DATA_COMMAND"}
    /\ c.sub_state \in {"SEND_ADDRESS_MSB", "SEND_ADDRESS_LSB"}

DataStep(c) == c.state = "WRITE_DATA_COMMAND" /\ c.sub_state = "SEND_DATA_SECTOR"

ChecksumStep(c) == c.state = "WRITE_DATA_COMMAND" /\ c.sub_state = "SEND_CHECKSUM"

\* C28: the byte 0x81 starts a frame only in Idle.  A powered card enters
\* AwaitingCommand only from Idle, on input 0x81.  In every other state the
\* card consumes 0x81 as what its current step expects and the frame in
\* progress advances by exactly one step (or ends, at its last step and at
\* the command step, where 0x81 is no command): as the address MSB it gives
\* the address 0x8100, as the LSB the low byte 0x81, as a data byte it is
\* stored and folded into the checksum, as the checksum it is compared with
\* the card's, and at every other step it has the effect of the byte 0x00.
\* The card's step is the number of transfers the host has made in the
\* frame.
C28_NoRestart ==
    /\ (PoweredSend /\ card.state = "AWAITING_COMMAND") =>
           last.pre.state = "IDLE" /\ last.cmd = \h81
    /\ frame.open => FrameStep(card) = frame.len
    /\ (card.powered_on /\ card.state # "IDLE") =>
           \E r \in {send(card, \h81, nullopt)} :
               /\ r.card.state # "AWAITING_COMMAND"
               /\ r.ret => /\ r.card.state = card.state
                           /\ FrameStep(r.card) = FrameStep(card) + 1
               /\ ~r.ret => r.card.state = "IDLE"
               /\ card.state = "AWAITING_COMMAND" => ~r.ret /\ r.data = card.flag
               /\ (AddressStep(card) /\ card.sub_state = "SEND_ADDRESS_MSB") =>
                      r.card.address = \h8100 /\ r.card.checksum = \h81
               /\ (AddressStep(card) /\ card.sub_state = "SEND_ADDRESS_LSB") =>
                      /\ card.address % 256 = 0
                      /\ r.card.address = IF card.address + \h81 > _LAST_SECTOR THEN \hFFFF
                                          ELSE card.address + \h81
                      /\ r.card.checksum = Xor(card.checksum, \h81)
               /\ DataStep(card) =>
                      /\ r.card.checksum = Xor(card.checksum, \h81)
                      /\ card.address # \hFFFF =>
                             ByteAt(r.card.bytes,
                                    card.address * SECTOR_SIZE + card.byte_counter) = \h81
               /\ ChecksumStep(card) =>
                      r.card.checksum = IF card.checksum = \h81 THEN \h00 ELSE \hFF
               /\ (/\ card.state # "AWAITING_COMMAND"
                   /\ ~AddressStep(card) /\ ~DataStep(card) /\ ~ChecksumStep(card)) =>
                      r = send(card, \h00, nullopt)

\* the host has sent 0x81 as the second data byte of a write to a valid
\* sector: the card has stored it and is at the third data byte
C28_Witness ==
    /\ PoweredSend
    /\ last.cmd = \h81
    /\ DataStep(last.pre)
    /\ last.pre.byte_counter = 1
    /\ last.ret
    /\ card.state = "WRITE_DATA_COMMAND"
    /\ card.byte_counter = 2
    /\ card.address <= _LAST_SECTOR
    /\ ByteAt(card.bytes, card.address * SECTOR_SIZE + 1) = \h81
    /\ frame.len = HEADER_LEN + 2

\* the host has sent 0x81 as the command byte: the frame has ended
C28_WitnessCommand ==
    /\ PoweredSend
    /\ last.cmd = \h81
    /\ last.pre.state = "AWAITING_COMMAND"
    /\ ~last.ret
    /\ card.state = "IDLE"

\* the number of transfers after the acknowledged 0x81 at which the frame
\* the host is sending ends
FurtherTransfers(f) ==
    CASE f.cmd = \h53 -> 9
      [] f.cmd = \h57 -> HEADER_LEN + SECTOR_SIZE + 3
      [] f.cmd = \h52 ->
             IF value_or(f.msb, \hFF) * 256 + value_or(f.lsb, \hFF) > _LAST_SECTOR
             THEN 9 ELSE 11 + SECTOR_SIZE
      [] OTHER -> 1

\* the last step of the sequence that protocol state s runs; the command
\* step is followed by one of the three sequences, the longest of which
\* is that of a read
LastStep(s) ==
    CASE s = "AWAITING_COMMAND" -> 11 + SECTOR_SIZE
      [] s = "READ_DATA_COMMAND" -> 11 + SECTOR_SIZE
      [] s = "WRITE_DATA_COMMAND" -> HEADER_LEN + SECTOR_SIZE + 3
      [] s = "GET_MEMCARD_ID_COMMAND" -> 9
      [] OTHER -> 0

\* the most transfers a card in state c takes before it is back in Idle
Remaining(c) ==
    IF c.state = "IDLE" THEN 0 ELSE LastStep(c.state) - FrameStep(c) + 1

\* C29: every frame ends, whatever the host sends.  Once a powered card in
\* Idle has acknowledged 0x81, the transfer that returns ack = false and
\* leaves the card in Idle is exactly the 1st further transfer for an
\* unrecognised command, the 9th for identify, the 9th for a read of an
\* out-of-range address, the 139th for a read of a valid address and the
\* 137th for any write.  And Idle can be reached from every reachable state
\* of a powered card: outside Idle the card is at a step between 1 and the
\* last step of its sequence, and every transfer, whatever its input, either
\* is acknowledged, moves the card one step on and leaves fewer transfers
\* to go, or is not acknowledged and leaves the card in Idle, which is what
\* happens at the last step.
C29_FramesEnd ==
    /\ (InFrame /\ frame.first = \h81 /\ frame.len >= 2) =>
           /\ ~last.ret <=> frame.len - 1 = FurtherTransfers(frame)
           /\ ~last.ret => card.state = "IDLE"
           /\ last.ret => card.state # "IDLE"
    /\ (card.powered_on /\ card.state # "IDLE") =>
           /\ FrameStep(card) \in 1..LastStep(card.state)
           /\ \A x \in Probes :
                  \E r \in {send(card, x, nullopt)} :
                      /\ r.ret => /\ r.card.state # "IDLE"
                                  /\ FrameStep(r.card) = FrameStep(card) + 1
                                  /\ Remaining(r.card) < Remaining(card)
                      /\ ~r.ret => r.card.state = "IDLE"
                      /\ Remaining(card) = 1 => ~r.ret

\* a read of a valid sector has ended at the 139th transfer after 0x81
C29_Witness ==
    /\ InFrame
    /\ frame.first = \h81
    /\ frame.cmd = \h52
    /\ frame.len = 140
    /\ ~last.ret
    /\ card.state = "IDLE"

\* a write has ended at the 137th transfer after 0x81
C29_WitnessWrite ==
    /\ InFrame
    /\ frame.first = \h81
    /\ frame.cmd = \h57
    /\ frame.len = 138
    /\ ~last.ret
    /\ card.state = "IDLE"

\* identify and a read of an out-of-range address have ended at the 9th
\* transfer after 0x81, an unrecognised command at the 1st
C29_WitnessShort ==
    /\ InFrame
    /\ frame.first = \h81
    /\ ~last.ret
    /\ card.state = "IDLE"
    /\ \/ frame.cmd = \h53 /\ frame.len = 10 /\ env.frames = 1
       \/ frame.cmd = \h52 /\ frame.len = 10 /\ env.frames = 2
       \/ frame.cmd = \h00 /\ frame.len = 2 /\ env.frames = 2

\* the transfer just made was a high-impedance input to a powered card at
\* sub-state sub of a read or of a write
AbsentAt(sub) ==
    /\ last.op = "send"
    /\ last.cmd = nullopt
    /\ last.pre.powered_on
    /\ last.pre.state \in {"READ_DATA_COMMAND", "WRITE_DATA_COMMAND"}
    /\ last.pre.sub_state = sub

\* C30: a high-impedance input at an address step or at a data step is
\* taken for the byte 0xFF.  In every reachable state of a powered card at
\* the address MSB or LSB step of read or write, or in the data phase of a
\* write, a transfer without input has exactly the effect of a transfer of
\* 0xFF.  After an absent MSB the checksum is 0xFF and the address 0xFF00,
\* which the LSB step then always poisons; after an absent LSB the low byte
\* is 0xFF and is folded into the checksum, so that the address is
\* (MSB << 8) | 0xFF when MSB <= 0x03 and poisoned otherwise; an absent data
\* byte of a write is folded into the checksum as 0xFF and, when the address
\* is valid, stored as 0xFF.
C30_AbsentIsFF ==
    /\ (card.powered_on /\ (AddressStep(card) \/ DataStep(card))) =>
           send(card, nullopt, nullopt) = send(card, \hFF, nullopt)
    /\ AbsentAt("SEND_ADDRESS_MSB") =>
           /\ card.checksum = \hFF
           /\ card.address = \hFF00
           /\ \A x \in Probes : send(card, x, nullopt).card.address = \hFFFF
    /\ AbsentAt("SEND_ADDRESS_LSB") =>
           /\ last.pre.address % 256 = 0
           /\ card.address = IF last.pre.address \div 256 <= \h03
                             THEN last.pre.address + \hFF ELSE \hFFFF
           /\ card.checksum = Xor(last.pre.checksum, \hFF)
           /\ (InFrame /\ frame.first = \h81 /\ frame.len = 6) =>
                  /\ last.pre.address = value_or(frame.msb, \hFF) * 256
                  /\ last.pre.checksum = value_or(frame.msb, \hFF)
                  /\ frame.msb = nullopt => card.address = \hFFFF
    /\ (AbsentAt("SEND_DATA_SECTOR") /\ last.pre.state = "WRITE_DATA_COMMAND") =>
           /\ card.checksum = Xor(last.pre.checksum, \hFF)
           /\ card.bytes =
                  IF last.pre.address # \hFFFF
                  THEN SetByte(last.pre.bytes,
                               get_sector(last.pre.address) + last.pre.byte_counter, \hFF)
                  ELSE last.pre.bytes
           /\ last.pre.address # \hFFFF =>
                  ByteAt(card.bytes,
                         get_sector(last.pre.address) + last.pre.byte_counter) = \hFF

\* an absent LSB after the MSB 0x03 has given the valid address 0x03FF
C30_Witness ==
    /\ AbsentAt("SEND_ADDRESS_LSB")
    /\ frame.msb = \h03
    /\ card.address = \h03FF
    /\ card.checksum = Xor(\h03, \hFF)

\* an absent MSB has poisoned the address, whatever the LSB
C30_WitnessMsb ==
    /\ last.op = "send"
    /\ last.pre.powered_on
    /\ last.pre.sub_state = "SEND_ADDRESS_LSB"
    /\ InFrame
    /\ frame.len = 6
    /\ frame.msb = nullopt
    /\ frame.lsb = \h00
    /\ last.pre.address = \hFF00
    /\ card.address = \hFFFF

\* an absent data byte of a write has replaced another byte of a valid
\* sector by 0xFF
C30_WitnessData ==
    /\ AbsentAt("SEND_DATA_SECTOR")
    /\ last.pre.state = "WRITE_DATA_COMMAND"
    /\ last.pre.address # \hFFFF
    /\ ByteAt(last.pre.bytes, get_sector(last.pre.address) + last.pre.byte_counter) # \hFF
    /\ ByteAt(card.bytes, get_sector(last.pre.address) + last.pre.byte_counter) = \hFF

(***************************************************************************)
(* Properties of the absent checksum, of determinism, of the scratch       *)
(* variables and of the accesses to the store.                             *)
(***************************************************************************)

\* a write frame has ended, and the host sent nothing at its checksum step
WriteAbsentChecksumEnded ==
    /\ WriteEnded
    /\ frame.len = 138
    /\ frame.ck = nullopt

\* C31 as stated: an absent input at the checksum step of a write is taken
\* for the byte 0xFF.  In every reachable state of a powered card at the
\* checksum step of a write to a valid address a transfer without input
\* leaves the verdict that a transfer of 0xFF leaves, and a write frame to a
\* valid address whose checksum was absent ends with status 0x47 when the xor
\* of the address and data bytes is 0xFF, and with 0x4E otherwise.
C31_AbsentChecksumIsFF ==
    /\ (card.powered_on /\ ChecksumStep(card) /\ card.address # \hFFFF) =>
           send(card, nullopt, nullopt) = send(card, \hFF, nullopt)
    /\ (WriteAbsentChecksumEnded /\ DecodedAddress <= \h3FF) =>
           last.data = IF HostChecksum(frame) = \hFF THEN \h47 ELSE \h4E

\* C31: an absent input at the checksum step of a write is taken for the
\* complement of the checksum the card has computed, so that it never
\* matches.  In every reachable state of a powered card at the checksum step
\* a transfer without input has the effect of a transfer of the complement,
\* and leaves the verdict 0xFF; this is the effect of a transfer of 0xFF
\* except when the computed checksum is 0xFF.  A write frame whose checksum
\* was absent ends with status 0x4E when its address is valid, whatever the
\* computed checksum, and with 0xFF when its address is out of range.
C31_AbsentChecksumNeverMatches ==
    /\ (card.powered_on /\ ChecksumStep(card)) =>
           /\ send(card, nullopt, nullopt) = send(card, 255 - card.checksum, nullopt)
           /\ send(card, nullopt, nullopt).card.checksum = \hFF
           /\ card.checksum # \hFF =>
                  send(card, nullopt, nullopt) = send(card, \hFF, nullopt)
           /\ card.checksum = \hFF =>
                  send(card, \hFF, nullopt).card.checksum = \h00
    /\ WriteAbsentChecksumEnded =>
           last.data = IF DecodedAddress <= \h3FF THEN \h4E ELSE \hFF

\* a write to sector 0 whose address and data bytes xor to 0xFF, and whose
\* checksum was absent, has ended with status 0x4E
C31_Witness ==
    /\ WriteAbsentChecksumEnded
    /\ DecodedAddress = 0
    /\ HostChecksum(frame) = \hFF
    /\ last.data = \h4E

\* the host has sent nothing to a card whose computed checksum is 0xFF
C31_WitnessStep ==
    /\ last.op = "send"
    /\ last.cmd = nullopt
    /\ last.pre.powered_on
    /\ ChecksumStep(last.pre)
    /\ last.pre.checksum = \hFF
    /\ last.pre.address # \hFFFF
    /\ card.checksum = \hFF

C32_WitnessRead ==
    /\ last.op = "send"
    /\ env.abandoned > 0
    /\ world.cards["c0"] = card
    /\ card.state = "READ_DATA_COMMAND"
    /\ card.sub_state = "RECV_DATA_SECTOR"
    /\ card.byte_counter > 1
    /\ last.data \in Byte
    /\ last.data = last.control_data

\* C33: a protocol mismatch collapses to false.  When read_sector or
\* write_sector is called on a slot whose card is not in Idle, because the
\* host gave up a frame that it was sending by hand, the call returns false;
\* so a call returns true only if the card was in Idle, and then the buffer
\* holds the 128 bytes of the sector as the store had them and the store is
\* as it was (read_sector), respectively the sector holds the data written
\* and every other sector is as it was (write_sector).
C33_MismatchIsFalse ==
    last.op \in {"read_sector", "write_sector"} =>
        /\ ~HeldIdle(last.pre, "s0") => ~last.ret
        /\ last.ret => HeldIdle(last.pre, "s0")
        /\ (last.ret /\ last.op = "read_sector") =>
               /\ last.data = SectorOf(Held(last.pre, "s0").bytes, last.arg)
               /\ Held(world, "s0").bytes = Held(last.pre, "s0").bytes
        /\ (last.ret /\ last.op = "write_sector") =>
               /\ SectorOf(Held(world, "s0").bytes, last.arg.index) = last.arg.data
               /\ SameButSector(Held(world, "s0").bytes, Held(last.pre, "s0").bytes,
                                last.arg.index)

\* read_sector has returned false on a card that the host had left in the
\* data phase of a read of the same sector
C33_Witness ==
    /\ last.op = "read_sector"
    /\ ~last.ret
    /\ Held(last.pre, "s0").state = "READ_DATA_COMMAND"
    /\ Held(last.pre, "s0").sub_state = "RECV_DATA_SECTOR"
    /\ Held(last.pre, "s0").address = last.arg

\* write_sector has returned false on a card that the host had left at the
\* last step of a read, whose end status is 0x47
C33_WitnessWrite ==
    /\ last.op = "write_sector"
    /\ ~last.ret
    /\ Held(last.pre, "s0").state = "READ_DATA_COMMAND"
    /\ Held(last.pre, "s0").sub_state = "RECV_END_BYTE"
    /\ Held(last.pre, "s0").address # \hFFFF

\* read_sector and write_sector have returned true on a card that was back in
\* Idle after a frame sent by hand
C33_WitnessIdle ==
    /\ last.op \in {"read_sector", "write_sector"}
    /\ last.ret
    /\ HeldIdle(last.pre, "s0")
    /\ frame.len > 1

\* the scratch members that the card assigns before it next reads them, at
\* the step it is at
DeadScratch(c) ==
    IF c.state \in {"IDLE", "AWAITING_COMMAND"}
    THEN {"sub_state", "address", "byte_counter", "checksum"}
    ELSE IF c.state = "GET_MEMCARD_ID_COMMAND"
    THEN {"address", "byte_counter", "checksum"}
    ELSE IF c.sub_state \in {"RECV_MEMCARD_ID_1", "RECV_MEMCARD_ID_2", "SEND_ADDRESS_MSB"}
    THEN {"address", "byte_counter", "checksum"}
    ELSE IF c.sub_state \in {"RECV_DATA_SECTOR", "SEND_DATA_SECTOR"}
    THEN {}
    ELSE IF c.state = "READ_DATA_COMMAND" /\ c.sub_state = "RECV_CHECKSUM"
    THEN {"address", "byte_counter"}
    ELSE IF c.state = "READ_DATA_COMMAND" /\ c.sub_state = "RECV_END_BYTE"
    THEN {"address", "byte_counter", "checksum"}
    ELSE {"byte_counter"}

\* card c with the members of dead replaced by those of j
Scrub(c, dead, j) ==
    [c EXCEPT !.sub_state = IF "sub_state" \in dead THEN j.sub_state ELSE @,
              !.address = IF "address" \in dead THEN j.address ELSE @,
              !.byte_counter = IF "byte_counter" \in dead THEN j.byte_counter ELSE @,
              !.checksum = IF "checksum" \in dead THEN j.checksum ELSE @]

\* cards a and b are at the same step and differ at most in scratch members
\* that are assigned before they are next read
SameLive(a, b) ==
    /\ a.state = b.state
    /\ DeadScratch(a) = DeadScratch(b)
    /\ \E j \in Scratch : Scrub(a, DeadScratch(a), j) = Scrub(b, DeadScratch(b), j)

\* C34: the scratch members do not leak between frames.  In Idle and at
\* the command step no scratch member is read before it is assigned: the
\* sub-state is set by the command, the address and the checksum by the
\* address MSB, the byte counter before the first data byte.  So for every
\* reachable state of a powered card, after complete frames and after
\* frames cut short by a power cycle, replacing what earlier transfers left
\* in the members that are not in use at the card's step (one member, or
\* all of them) by other values changes neither the ack nor the response of
\* the next transfer, whatever its input, nor the store, nor any member in
\* use after it; from Idle this is every scratch member, so that the
\* responses of a frame depend on its inputs and on the store only.
C34_NoLeak ==
    card.powered_on =>
        \A j \in Scratch :
            \A dead \in {DeadScratch(card)} \cup {{f} : f \in DeadScratch(card)} :
                \A x \in Probes :
                    \E r \in {send(card, x, nullopt)},
                       q \in {send(Scrub(card, dead, j), x, nullopt)} :
                        /\ r.ret = q.ret
                        /\ r.data = q.data
                        /\ r.card.bytes = q.card.bytes
                        /\ SameLive(r.card, q.card)

\* a powered card in Idle that holds the sub-state, the byte counter and
\* the checksum of a write cut short in its data phase has acknowledged the
\* 0x81 of a new frame
C34_Witness ==
    /\ last.op = "send"
    /\ last.cmd = \h81
    /\ last.ret
    /\ last.pre.state = "IDLE"
    /\ card.state = "AWAITING_COMMAND"
    /\ card.sub_state = "SEND_DATA_SECTOR"
    /\ card.byte_counter > 0
    /\ card.address # \hFFFF
    /\ card.bytes # NewStore(card.bytes.seed)

\* a powered card in Idle that holds the verdict 0xFF of a write has
\* acknowledged the 0x81 of a new frame, after a power cycle
C34_WitnessVerdict ==
    /\ last.op = "send"
    /\ last.cmd = \h81
    /\ last.ret
    /\ last.pre.state = "IDLE"
    /\ card.sub_state = "RECV_END_BYTE"
    /\ card.checksum = \hFF
    /\ card.address = \h03FF
    /\ card.bytes # NewStore(card.bytes.seed)

\* stores a and b hold the same bytes
SameBytes(a, b) ==
    /\ a.seed = b.seed
    /\ \A o \in DOMAIN a.w \cup DOMAIN b.w : ByteAt(a, o) = ByteAt(b, o)

\* C35: the read operations of the slot never modify the card.  Whatever
\* state the held card is in when read_sector, read_block or read_card is
\* called, a write frame left in its data phase by earlier sends included,
\* every byte of the card's store is after the call what it was before.
C35_ReadsKeepStore ==
    last.op \in {"read_sector", "read_block", "read_card"} =>
        SameBytes(Held(world, "s0").bytes, Held(last.pre, "s0").bytes)

\* what the code does instead: read_sector, called on a card that the host
\* had left in the data phase of a write to sector 0x3FF, has returned false
\* and has stored the first bytes of its read frame, 0x81 0x52 0x00, as the
\* next three data bytes of that write
C35_ReadWrites ==
    /\ last.op = "read_sector"
    /\ ~last.ret
    /\ Held(last.pre, "s0").state = "WRITE_DATA_COMMAND"
    /\ Held(last.pre, "s0").sub_state = "SEND_DATA_SECTOR"
    /\ Held(last.pre, "s0").address = \h3FF
    /\ Held(last.pre, "s0").byte_counter = 0
    /\ SectorOf(Held(last.pre, "s0").bytes, \h3FF)[1] # \h81
    /\ SectorOf(Held(world, "s0").bytes, \h3FF)[1] = \h81
    /\ SectorOf(Held(world, "s0").bytes, \h3FF)[2] = \h52
    /\ SectorOf(Held(world, "s0").bytes, \h3FF)[3] = \h00
    /\ Held(world, "s0").byte_counter = 3

\* card c is in the data phase of a read or of a write
DataPhase(c) ==
    \/ c.state = "READ_DATA_COMMAND" /\ c.sub_state = "RECV_DATA_SECTOR"
    \/ c.state = "WRITE_DATA_COMMAND" /\ c.sub_state = "SEND_DATA_SECTOR"

\* the next transfer on card c reads or writes a byte of the store
Accesses(c) ==
    /\ c.powered_on
    /\ DataPhase(c)
    /\ c.state = "WRITE_DATA_COMMAND" => c.address # \hFFFF

\* C36: every access of the card to its store is in bounds.  In every
\* reachable state in which the next transfer reads or writes a byte of the
\* store, the address is at most 0x3FF and the byte counter is in 0..127, so
\* that the offset address * 128 + byte counter lies in the addressed
\* sector and in the store.  The data phase of a read and of a write is
\* entered with the byte counter 0, each of its transfers adds 1 to the
\* counter, whatever the input, and it is left when the counter is 128: it
\* lasts 128 transfers, and the card never sets the counter above 128.
C36_InBounds ==
    /\ Accesses(card) =>
           /\ card.address \in 0..(\h3FF)
           /\ card.byte_counter \in 0..(SECTOR_SIZE - 1)
           /\ get_sector(card.address) + card.byte_counter \in 0..(CARD_SIZE - 1)
    /\ (card.powered_on /\ DataPhase(card)) =>
           /\ card.byte_counter \in 0..(SECTOR_SIZE - 1)
           /\ \A x \in Probes :
                  \E r \in {send(card, x, nullopt)} :
                      /\ r.ret
                      /\ r.card.byte_counter = card.byte_counter + 1
                      /\ DataPhase(r.card) <=> card.byte_counter + 1 < SECTOR_SIZE
                      /\ r.card.state = card.state
                      /\ r.card.address = card.address
    /\ (last.op = "send" /\ DataPhase(card) /\ ~DataPhase(last.pre)) =>
           card.byte_counter = 0
    /\ (last.op = "send" /\ card.byte_counter # last.pre.byte_counter) =>
           card.byte_counter \in 0..SECTOR_SIZE
    /\ last.op # "send" => card.byte_counter = last.pre.byte_counter

\* the card has returned the last byte of the last sector, at the last
\* offset of the store
C36_Witness ==
    /\ last.op = "send"
    /\ Accesses(last.pre)
    /\ last.pre.state = "READ_DATA_COMMAND"
    /\ last.pre.address = \h3FF
    /\ last.pre.byte_counter = SECTOR_SIZE - 1
    /\ get_sector(last.pre.address) + last.pre.byte_counter = CARD_SIZE - 1
    /\ card.byte_counter = SECTOR_SIZE
    /\ card.sub_state = "RECV_CHECKSUM"

\* the card has stored the last byte of the last sector
C36_WitnessWrite ==
    /\ last.op = "send"
    /\ Accesses(last.pre)
    /\ last.pre.state = "WRITE_DATA_COMMAND"
    /\ last.pre.byte_counter = SECTOR_SIZE - 1
    /\ card.byte_counter = SECTOR_SIZE
    /\ card.sub_state = "SEND_CHECKSUM"
    /\ ByteAt(card.bytes, CARD_SIZE - 1) = last.cmd

\* the card has gone through the data phase of a write to a poisoned
\* address, without an access
C36_WitnessPoisoned ==
    /\ last.op = "send"
    /\ last.pre.powered_on
    /\ DataPhase(last.pre)
    /\ ~Accesses(last.pre)
    /\ last.pre.byte_counter = SECTOR_SIZE - 1
    /\ card.bytes = last.pre.bytes

\* the host's record is that of a write frame to a valid address of which
\* the address bytes have been sent, still open or cut short
PartialWrite ==
    /\ last.op \in {"send", "power_off", "power_on"}
    /\ frame.first = \h81
    /\ frame.cmd = \h57
    /\ frame.len >= HEADER_LEN
    /\ DecodedAddress <= \h3FF

\* the number of data bytes of the frame that the host has sent
DataSent == IF frame.len - HEADER_LEN < SECTOR_SIZE THEN frame.len - HEADER_LEN
            ELSE SECTOR_SIZE

\* C37: a write is applied byte by byte, before the checksum is seen.  At
\* every point of a write frame to a valid address at which the host stops
\* or switches the power off, after k data bytes, 0 <= k <= 128, the first
\* k bytes of the addressed sector are the bytes sent (0xFF where nothing
\* was sent), the other 128 - k bytes of the sector and every other sector
\* are what they were when the frame began; and this is still so after the
\* power_off and after a later power_on.
C37_ByteByByte ==
    PartialWrite =>
        /\ \A i \in 0..(SECTOR_SIZE - 1) :
               ByteAt(card.bytes, get_sector(DecodedAddress) + i)
                   = IF i < DataSent THEN value_or(Payload(frame.pat, i), \hFF)
                     ELSE ByteAt(frame.bytes0, get_sector(DecodedAddress) + i)
        /\ SameButSector(card.bytes, frame.bytes0, DecodedAddress)

\* a card that lost power after 64 data bytes of a write has been powered
\* on again: the first 64 bytes of the sector are those sent, the 65th is
\* what it was
C37_Witness ==
    /\ PartialWrite
    /\ last.op = "power_on"
    /\ last.ret
    /\ ~frame.open
    /\ DataSent = 64
    /\ ByteAt(card.bytes, get_sector(DecodedAddress) + 63) = Payload(frame.pat, 63)
    /\ ByteAt(frame.bytes0, get_sector(DecodedAddress) + 63) # Payload(frame.pat, 63)
    /\ ByteAt(card.bytes, get_sector(DecodedAddress) + 64)
           = ByteAt(frame.bytes0, get_sector(DecodedAddress) + 64)
    /\ ByteAt(card.bytes, get_sector(DecodedAddress) + 64) # Payload(frame.pat, 64)

\* the power has been switched off after all 128 data bytes, before the
\* checksum: the sector holds the data
C37_WitnessAll ==
    /\ PartialWrite
    /\ last.op = "power_off"
    /\ last.ret
    /\ frame.len = HEADER_LEN + SECTOR_SIZE
    /\ last.pre.sub_state = "SEND_CHECKSUM"
    /\ card.bytes # frame.bytes0

\* the power has been switched off before the first data byte: the store is
\* as it was
C37_WitnessNone ==
    /\ PartialWrite
    /\ last.op = "power_off"
    /\ last.ret
    /\ DataSent = 0
    /\ card.bytes = frame.bytes0

\* C38: a slot-level write with an index beyond the card never alters stored
\* data.  For every index i >= 0x400, write_sector(i, data) on a slot that
\* holds a powered card in Idle leaves every byte of the card's store as it
\* was, and read_sector(i, out) does not return true with the content of a
\* sector of the card in out.
C38_OutOfRangeKeepsStore ==
    /\ (/\ last.op = "write_sector"
        /\ HeldIdle(last.pre, last.slot)
        /\ last.arg.index >= \h400) =>
           SameBytes(Held(world, last.slot).bytes, Held(last.pre, last.slot).bytes)
    /\ (/\ last.op = "read_sector"
        /\ HeldIdle(last.pre, last.slot)
        /\ last.arg >= \h400) =>
           ~(/\ last.ret
             /\ \E i \in ValidSectors :
                    last.data = SectorOf(Held(last.pre, last.slot).bytes, i))

\* what the code does instead: write_sector(0x400, data) on a card in Idle
\* has changed bytes of the store, those of sector 0x400 & 0x3FF = 0, and
\* read_sector(0x400, out) on the card as it is now returns true with the
\* content of sector 0
C38_StoreAltered ==
    /\ last.op = "write_sector"
    /\ last.arg.index >= \h400
    /\ HeldIdle(last.pre, last.slot)
    /\ ~SameBytes(Held(world, last.slot).bytes, Held(last.pre, last.slot).bytes)
    /\ SameButSector(Held(world, last.slot).bytes, Held(last.pre, last.slot).bytes,
                     last.arg.index % \h400)
    /\ \E r \in {read_sector(world, last.slot, last.arg.index, BlankSector)} :
           /\ r.ret
           /\ r.data = SectorOf(Held(world, last.slot).bytes, last.arg.index % \h400)
           /\ r.data = last.arg.data

\* C39: when the host may also call power_on() and power_off() on the cards
\* themselves, inserted or not, every card held by a slot is still powered
\* on and no card is held by two slots at once.
C39_InvariantsHold ==
    /\ \A s \in DOMAIN world.slots :
           world.slots[s] # nullptr => world.cards[world.slots[s]].powered_on
    /\ \A k \in DOMAIN world.cards : Cardinality(Holders(world, k)) <= 1

\* a second slot has taken a card that another slot holds, which the host
\* had powered off itself
C39_HeldByTwo ==
    /\ last.op = "insert_card"
    /\ last.ret
    /\ Holders(last.pre, last.arg) # {}
    /\ ~last.pre.cards[last.arg].powered_on
    /\ Cardinality(Holders(world, last.arg)) = 2
    /\ world.cards[last.arg].powered_on

\* C40: for every input sequence made of bytes that are not 0x81, then 0x81,
\* then a command byte that is 0x52 or not a command, then the bytes of a
\* read frame, the coroutine _state_machine yields at every transfer the ack
\* and the response that send returns on a powered card started in Idle.
C40_Interchangeable ==
    last.op = "transfer" =>
        /\ last.yielded
        /\ last.gen_ret = last.ret
        /\ last.gen_data = last.data

\* the first ID step of a read frame: send acknowledges it with 0x5A, the
\* coroutine takes the byte 0x00 for the command and ends the frame
C40_DivergesAtID ==
    /\ last.op = "transfer"
    /\ last.pre.state = "READ_DATA_COMMAND"
    /\ last.pre.sub_state = "RECV_MEMCARD_ID_1"
    /\ last.cmd = \h00
    /\ last.ret /\ last.data = \h5A
    /\ last.yielded /\ ~last.gen_ret /\ last.gen_data = nullopt
    /\ env.gen.at = "no_command"

\* a byte that is not a command: send does not acknowledge it, the coroutine
\* does
C40_DivergesAtCommand ==
    /\ last.op = "transfer"
    /\ last.pre.state = "AWAITING_COMMAND"
    /\ last.cmd \notin {\h52, \h57, \h53}
    /\ ~last.ret /\ last.data = last.pre.flag
    /\ last.yielded /\ last.gen_ret /\ last.gen_data = last.pre.flag

\* a frame whose first ID byte is 0x52 is served alike by both, to its
\* last transfer
C40_AgreesShifted ==
    /\ last.op = "transfer"
    /\ env.n = Len(env.inputs)
    /\ ~last.ret /\ last.data = \h47
    /\ last.yielded /\ ~last.gen_ret /\ last.gen_data = \h47

====
